---- MODULE Spec2Model ----
(***************************************************************************)
(* Murxla: the SolverManager (sort database, option selection, assumption *)
(* set, counters) as a state machine, one action per member function, and *)
(* the FSM that drives it. Line numbers refer to src/unnamed/part_002     *)
(* (solver_manager.cpp) unless another file is named.                     *)
(***************************************************************************)
EXTENDS FiniteSets, Integers, Sequences, TLC

(* ------------------------------------------------------------------ *)
(* Bounds of the exploration                                           *)
(* ------------------------------------------------------------------ *)

\* largest value of the sort counter d_n_sorts explored (also the largest
\* argument handed to set_n_sorts)
MaxSortId == 3
\* largest value of d_n_symbols explored
MaxSymbols == 2
\* largest value of d_n_terms explored
MaxTerms == 2
\* largest value of d_n_sat_calls explored
MaxSatCalls == 1
\* deepest push level explored
MaxPushDepth == 1
\* largest number of lines of a trace that are replayed
MaxReplayed == 2
\* most reduction steps a line of a trace can take
MaxLineSize == 1
\* deepest push level explored where the levels of the terms are looked at
MaxLevelDepth == 2
\* deepest push level explored where only the push/pop levels are looked at
MaxScopeDepth == 7
\* largest number of command-line arguments explored
MaxArgs == 4

\* the longest argument of -s, of those enumerated in full
MaxSeedLen == 3
\* largest number of runs of the continuous loop explored
MaxRuns == 2
\* largest number of lines of a trace that is minimised
MaxLines == 4
\* largest number of theories passed to the SolverManager
MaxRequested == 2

(* ------------------------------------------------------------------ *)
(* Program constants                                                   *)
(* ------------------------------------------------------------------ *)

\* src/src/config.hpp line 52
MURXLA_MAX_N_PUSH_LEVELS == 5

(* ------------------------------------------------------------------ *)
(* Sort kinds and the back-end sorts of the adapter                    *)
(* ------------------------------------------------------------------ *)

SORT_ANY == "SORT_ANY"

\* the sort kinds exercised (the ones add_sort's assertions distinguish)
SortKinds ==
  {"SORT_ARRAY", "SORT_BOOL", "SORT_BV", "SORT_FUN", "SORT_INT", "SORT_REAL"}

\* Back-end sort objects, identified up to AbsSort::equals. "BV1" is the
\* bit-vector sort of size 1, which a Boolector-style adapter also hands out
\* as its Boolean sort; "BV8" is a bit-vector sort of size 8; "Int" is the
\* integer sort, handed out for Real terms too under arithmetic subtyping.
BackendSorts == {"BV1", "BV8", "Int"}

\* the sort kinds of THEORY_FP, and a floating-point and the rounding-mode
\* back-end sort
FpSortKinds == {"SORT_FP", "SORT_RM"}

FpBackendSorts == {"FP16", "RM"}

is_int(be) == be = "Int"

get_bv_size(be) ==
  CASE be = "BV1" -> 1
    [] be = "BV8" -> 8
    [] OTHER -> 0

\* get_sorts().size(): the number of child sorts (none of the back-end
\* sorts above is an array or function sort)
n_child_sorts(be) == 0

\* the sort kinds under which Solver::mk_sort / Solver::get_sort can hand out
\* the back-end sort
SolverKinds(be, subtyping) ==
  CASE be = "BV1" -> {"SORT_BOOL", "SORT_BV"}
    [] be = "Int" -> IF subtyping THEN {"SORT_INT", "SORT_REAL"} ELSE {"SORT_INT"}
    [] be = "BV8" -> {"SORT_BV"}
    [] be = "FP16" -> {"SORT_FP"}
    [] be = "RM" -> {"SORT_RM"}

\* AbsSort as wrapped by the adapter: d_id = 0, d_kind = SORT_ANY
FreshSort(be) == [be |-> be, id |-> 0, kind |-> SORT_ANY]

NoSort == [be |-> "null", id |-> 0, kind |-> SORT_ANY]

(* ------------------------------------------------------------------ *)
(* Solver options (SolverOption: name, conflicts, depends, values)     *)
(* ------------------------------------------------------------------ *)

OptionNames ==
  {"incremental", "produce-models", "produce-unsat-cores",
   "produce-unsat-assumptions"}

OptionValues == {"true", "false"}

NoDeps == [o \in OptionNames |-> {}]

\* The option sets handed to the constructor: name -> (conflicts, depends).
\* An empty set; independent options; a conflict declared on one side only;
\* a dependency; options that all depend on another one.
SolverOptionSets ==
  { [names |-> {}, conflicts |-> NoDeps, depends |-> NoDeps],
    [names |-> OptionNames, conflicts |-> NoDeps, depends |-> NoDeps],
    [names |-> OptionNames,
     conflicts |-> [NoDeps EXCEPT !["produce-unsat-cores"] = {"incremental"}],
     depends |-> NoDeps],
    [names |-> OptionNames,
     conflicts |-> NoDeps,
     depends |-> [NoDeps EXCEPT !["produce-unsat-cores"] = {"produce-models"}]],
    [names |-> {"incremental", "produce-models"},
     conflicts |-> NoDeps,
     depends |-> [NoDeps EXCEPT !["incremental"] = {"produce-models"},
                                !["produce-models"] = {"incremental"}]] }

(* ------------------------------------------------------------------ *)
(* State                                                               *)
(* ------------------------------------------------------------------ *)

VARIABLES
  scenario,            \* the group of operations this run exercises
  alive,               \* FALSE once the process has been killed by a signal
  arith_subtyping,     \* d_arith_subtyping (constructor argument)
  solver_options,      \* d_solver_options (constructor argument)
  sorts,               \* d_sorts: the sort objects, unique up to equals
  sort_kind_to_sorts,  \* d_sort_kind_to_sorts
  n_sorts,             \* d_n_sorts
  term_db,             \* d_term_db: the terms that can be picked
  n_terms,             \* d_n_terms
  n_sort_terms,        \* d_n_sort_terms
  assumptions,         \* d_assumptions
  string_char_values,  \* d_string_char_values
  untraced_sorts,      \* d_untraced_sorts: untraced id -> sort
  untraced_terms,      \* d_untraced_terms: untraced id -> term
  pending_get_sorts,   \* d_pending_get_sorts
  used_options,        \* d_used_solver_options
  flags,               \* d_incremental, d_model_gen, d_unsat_assumptions,
                       \* d_unsat_cores
  n_push_levels,       \* d_n_push_levels
  sat_called,          \* d_sat_called
  sat_result,          \* d_sat_result
  n_sat_calls,         \* d_n_sat_calls
  n_symbols,           \* d_n_symbols
  cur_state,           \* FSM::d_cur_state
  last,                \* the last call and what it returned
  argv,                \* main: argv[1..argc-1]
  trace_line,          \* the first line of the file -u names
  ndebug,              \* TRUE in a build whose asserts are compiled out
  seed_arg,            \* the characters of the argument given to -s
  args,                \* parse_options: args, as get_options fills it
  seen,                \* observer: the options a branch has handled
  options,             \* Options
  cmd_line_trace,      \* Options::cmd_line_trace, as tokens
  pc,                  \* where main() stands
  is_forked,           \* main: is_forked
  sigint_handler,      \* the disposition of SIGINT
  tmp_dir,             \* TRUE while the directory TMP_DIR names exists
  runs,                \* the seeds of the runs made so far
  events,              \* observer: what a SIGINT or an error exit caused,
                       \* in order
  results,             \* observer: what each run made so far found
  dd,                  \* the delta debugger at work on a trace
  theories,            \* the theories and sort kinds of the SolverManager
  replay               \* the replay of a trace: the lines read, the lines
                       \* a solver call was made for, the line of the error

\* the process around the SolverManager: main() and its signal handler
mainVars == <<argv, trace_line, ndebug, seed_arg, args, seen, options, cmd_line_trace,
              pc, is_forked, sigint_handler, tmp_dir, runs, events,
              results>>

\* what no SolverManager member function writes
cfgVars == <<scenario, arith_subtyping, solver_options, mainVars, dd,
             theories, replay>>

sortVars == <<sorts, sort_kind_to_sorts, n_sorts>>

termVars == <<term_db, n_terms, n_sort_terms, string_char_values,
              pending_get_sorts>>

untraceVars == <<untraced_sorts, untraced_terms>>

satVars == <<sat_called, sat_result, n_sat_calls>>

vars == <<scenario, alive, arith_subtyping, solver_options, sorts,
          sort_kind_to_sorts, n_sorts, term_db, n_terms, n_sort_terms,
          assumptions, string_char_values, untraced_sorts, untraced_terms,
          pending_get_sorts, used_options, flags, n_push_levels, sat_called,
          sat_result, n_sat_calls, n_symbols, cur_state, last, argv,
          trace_line, ndebug, seed_arg, args, seen, options, cmd_line_trace,
          pc, is_forked, sigint_handler, tmp_dir, runs, events, results, dd,
          theories, replay>>

\* a null Term. A term carries its id, the sort kind it was added with, its
\* levels (AbsTerm::d_levels, src/src/solver.hpp line 245), whether it is a
\* variable, whether it is a value (AbsTerm::d_is_value, line 244) and its
\* sort
NoTerm ==
  [id |-> 0, kind |-> SORT_ANY, levels |-> {}, is_var |-> FALSE,
   is_value |-> FALSE, sort |-> NoSort]

\* what `last` records: the member function, and its result as a sort, a
\* term, a pair of strings or a number (the unused ones keep these defaults)
NoCall ==
  [op |-> "none", sort |-> NoSort, term |-> NoTerm, name |-> "", value |-> "",
   num |-> 0, ok |-> TRUE]

(* ------------------------------------------------------------------ *)
(* Frames: what an action that is one member-function call leaves      *)
(* alone. Each call below constrains only the members it may write.    *)
(* ------------------------------------------------------------------ *)

\* everything but the sort database
ExceptSorts ==
  UNCHANGED <<cfgVars, alive, termVars, assumptions, untraceVars,
              used_options, flags, n_push_levels, satVars, n_symbols,
              cur_state>>

\* everything but the sort and the term database
ExceptSortsTerms ==
  UNCHANGED <<cfgVars, alive, assumptions, untraceVars, used_options, flags,
              n_push_levels, satVars, n_symbols, cur_state>>

\* everything but `last`
Query ==
  UNCHANGED <<cfgVars, alive, sortVars, termVars, assumptions, untraceVars,
              used_options, flags, n_push_levels, satVars, n_symbols,
              cur_state>>

(* ------------------------------------------------------------------ *)
(* add_sort                                                            *)
(* ------------------------------------------------------------------ *)

\* d_sorts.find(sort): hash and equality delegate to the back-end object
find_sort_in(S, h) ==
  IF \E s \in S : s.be = h.be
    THEN CHOOSE s \in S : s.be = h.be
    ELSE NoSort

\* lines 207-211: a sort fresh from the solver takes the given kind
set_kind_if_any(h, sort_kind) ==
  IF h.kind = SORT_ANY THEN [h EXCEPT !.kind = sort_kind] ELSE h

\* the assertion of lines 212-221 (on the caller's handle) and, with
\* found = TRUE, of lines 233-246 (on the stored sort)
sort_kind_assert(s, sort_kind, subtyping, found) ==
  /\ (sort_kind # "SORT_INT" /\ s.kind # "SORT_INT") \/ is_int(s.be)
  /\ \/ subtyping /\ sort_kind = "SORT_REAL" /\ s.kind = "SORT_INT"
     \/ subtyping /\ sort_kind = "SORT_INT" /\ s.kind = "SORT_REAL"
     \/ sort_kind = "SORT_BOOL" /\ s.kind = "SORT_BV" /\ get_bv_size(s.be) = 1
     \/ sort_kind = "SORT_BV" /\ s.kind = "SORT_BOOL"
     \/ found /\ sort_kind = "SORT_ARRAY" /\ s.kind = "SORT_FUN"
              /\ n_child_sorts(s.be) = 2
     \/ found /\ sort_kind = "SORT_FUN" /\ s.kind = "SORT_ARRAY"
              /\ n_child_sorts(s.be) = 2
     \/ s.kind = sort_kind

\* a handle that is given the next id whether or not the sort is stored
fresh_sort(S, h, n) == [h EXCEPT !.id = n + 1]

\* lines 223-247: the stored sort for the handle; a sort not yet stored
\* takes the id ++d_n_sorts
canonical_sort(S, h, n) ==
  IF find_sort_in(S, h) = NoSort THEN [h EXCEPT !.id = n + 1]
                                 ELSE find_sort_in(S, h)

\* line 226: the counter after the call
next_n_sorts(S, h, n) ==
  IF find_sort_in(S, h) = NoSort THEN n + 1 ELSE n

\* lines 251-255 with the bucket overwritten instead of extended
bucket_replace(bucket, s) == {s}

\* the condition of part_003 line 178: insert only what is there already
bucket_insert_if_present(bucket, s) ==
  IF s \in bucket THEN bucket \cup {s} ELSE bucket

\* lines 251-255: insert into the bucket unless already there
bucket_insert(bucket, s) ==
  IF s \notin bucket THEN bucket \cup {s} ELSE bucket

\* lines 201-256: add_sort(h0, sort_kind); the caller's handle becomes
\* canonical_sort(...)
add_sort(h0, sort_kind) ==
  LET h     == set_kind_if_any(h0, sort_kind)
      found == find_sort_in(sorts, h) # NoSort
      s     == canonical_sort(sorts, h, n_sorts)
  IN  /\ sort_kind \in SolverKinds(h0.be, arith_subtyping)
      /\ sort_kind_assert(h, sort_kind, arith_subtyping, FALSE)
      /\ found => sort_kind_assert(s, sort_kind, arith_subtyping, TRUE)
      /\ ~found => n_sorts < MaxSortId
      /\ s.id # 0
      /\ sort_kind # "SORT_ARRAY" \/ n_child_sorts(s.be) # 0
      /\ sorts' = sorts \cup {s}
      /\ n_sorts' = next_n_sorts(sorts, h, n_sorts)
      /\ sort_kind_to_sorts' =
           [sort_kind_to_sorts EXCEPT
              ![sort_kind] = bucket_insert(sort_kind_to_sorts[sort_kind], s)]

\* the handles a caller can pass: a sort fresh from the solver, or a sort it
\* was handed by the SolverManager
SortHandles == {FreshSort(be) : be \in BackendSorts} \cup sorts

AddSort ==
  \E h0 \in SortHandles, sort_kind \in SortKinds :
    /\ alive
    /\ add_sort(h0, sort_kind)
    /\ last' = [NoCall EXCEPT
                  !.op = "add_sort", !.name = sort_kind,
                  !.sort = canonical_sort(sorts, set_kind_if_any(h0, sort_kind),
                                          n_sorts)]
    /\ ExceptSorts

\* lines 752-756
SetNSorts ==
  \E id \in 0..MaxSortId :
    /\ alive
    /\ n_sorts' = id
    /\ last' = [NoCall EXCEPT !.op = "set_n_sorts", !.num = id]
    /\ UNCHANGED <<sorts, sort_kind_to_sorts>>
    /\ ExceptSorts

\* lines 716-723; every sort kind of SortKinds belongs to an enabled theory
has_sort(sort_kind) ==
  IF sort_kind = SORT_ANY THEN sorts # {}
                          ELSE sort_kind_to_sorts[sort_kind] # {}

\* what pick_sort() (lines 621-627) and pick_sort(sort_kind, with_terms =
\* false) (lines 629-648) draw from
pick_sort_candidates(sort_kind) ==
  IF sort_kind = SORT_ANY THEN sorts ELSE sort_kind_to_sorts[sort_kind]

PickSort ==
  \E sort_kind \in SortKinds \cup {SORT_ANY} :
    \E res \in pick_sort_candidates(sort_kind) :
      /\ alive
      /\ has_sort(sort_kind)
      /\ last' = [NoCall EXCEPT !.op = "pick_sort", !.sort = res]
      /\ Query

(* ------------------------------------------------------------------ *)
(* pick_option, pick_symbol                                            *)
(* ------------------------------------------------------------------ *)

\* the filter of lines 806-834 without its dependency loop (lines 822-830)
available_ignoring_depends(opts, used) ==
  {o \in opts.names : \A c \in opts.conflicts[o] : c \notin used}

\* lines 806-834: the options that pass the conflict and the dependency
\* filter
available_options(opts, used) ==
  {o \in opts.names :
     /\ \A c \in opts.conflicts[o] : c \notin used
     /\ \A d \in opts.depends[o] : d \in used}

\* lines 839-840 left out
insert_never(used, name) == used

\* lines 839-840
insert_used(used, name) ==
  IF name \notin used THEN used \cup {name} ELSE used

\* lines 796-843: pick_option() returning <<name, value>>. With an empty
\* candidate list line 836 computes d_rng.pick() % 0, which is undefined:
\* the division traps (SIGFPE) or, where division does not trap, the index
\* is read through the null data pointer of the empty vector. Either way
\* the process is killed and nothing is returned (ok = FALSE).
\* last.num is 1 when the lookup of line 839 finds the name already used.
pick_option ==
  LET available == available_options(solver_options, used_options)
  IN  IF solver_options.names = {}
        THEN /\ last' = [NoCall EXCEPT !.op = "pick_option"]
             /\ UNCHANGED <<alive, used_options>>
        ELSE IF available = {}
          THEN /\ alive' = FALSE
               /\ last' = [NoCall EXCEPT !.op = "pick_option", !.ok = FALSE]
               /\ UNCHANGED used_options
          ELSE \E o \in available, v \in OptionValues :
                 /\ used_options' = insert_used(used_options, o)
                 /\ last' = [NoCall EXCEPT
                               !.op = "pick_option", !.name = o, !.value = v,
                               !.num = IF o \in used_options THEN 1 ELSE 0]
                 /\ UNCHANGED alive

PickOption ==
  /\ alive
  /\ pick_option
  /\ UNCHANGED <<cfgVars, sortVars, termVars, assumptions, untraceVars, flags,
                 n_push_levels, satVars, n_symbols, cur_state>>

\* a counter that stays where it is
symbol_counter_kept(n) == n

\* line 612: d_n_symbols++
symbol_counter_after(n) == n + 1

\* lines 606-614, simple symbols (Options::simple_symbols, the default):
\* "_x" followed by the counter, which is then incremented
PickSymbol ==
  /\ alive
  /\ n_symbols < MaxSymbols
  /\ last' = [NoCall EXCEPT !.op = "pick_symbol", !.name = "_x",
                            !.num = n_symbols]
  /\ n_symbols' = symbol_counter_after(n_symbols)
  /\ UNCHANGED <<cfgVars, alive, sortVars, termVars, assumptions, untraceVars,
                 used_options, flags, n_push_levels, satVars, cur_state>>

(* ------------------------------------------------------------------ *)
(* Assumptions, reset_sat, reset                                       *)
(* ------------------------------------------------------------------ *)

\* The term database keeps, for every sort and every level, a bag of terms,
\* and for every sort kind the union of them: a term is in the bags of the
\* levels its levels vector lists.

\* TermDb::has_term(sort_kind)
has_term(db, sort_kind) ==
  IF sort_kind = SORT_ANY THEN db # {} ELSE \E t \in db : t.kind = sort_kind

\* TermDb::has_var
has_var(db) == \E t \in db : t.is_var

\* TermDb::has_term(sort_kind, level) / TermDb::pick_term(sort_kind, level):
\* the terms of the kind in the bags of the level
terms_of(db, sort_kind, level) ==
  {t \in db : t.kind = sort_kind /\ level \in t.levels}

\* TermDb::pick_var()
pick_var(db) == {t \in db : t.is_var}

\* TermDb::pick_value(sort)
pick_value(db, sort) == {t \in db : t.is_value /\ t.sort = sort}

\* TermDb::pick_quant_body(): a Bool term made while a variable was in
\* scope
pick_quant_body(db) ==
  {t \in db : /\ ~t.is_var
              /\ t.kind = "SORT_BOOL"
              /\ \E v \in db : v.is_var /\ t.id > v.id}

\* line 441: d_assumptions.insert(res)
insert_assumption(assumed, res) == assumed \cup {res}

\* lines 436-443. The assert of line 439 asks for a Bool term of any
\* level, the pick of line 440 for one of level 0. Where the database has
\* Bool terms and none of level 0, pick_term(SORT_BOOL, 0) has nothing to
\* return: the call is made against its precondition (has_term(SORT_BOOL,
\* 0)) and the run ends in it, no term is returned and none is inserted.
PickAssumption ==
  LET found == terms_of(term_db, "SORT_BOOL", 0)
  IN  /\ alive
      /\ ndebug \/ has_term(term_db, "SORT_BOOL")
      /\ IF found = {}
           THEN /\ alive' = FALSE
                /\ assumptions' = assumptions
                /\ last' = [NoCall EXCEPT !.op = "pick_assumption",
                                          !.ok = FALSE]
           ELSE \E res \in found :
                  /\ alive' = alive
                  /\ assumptions' = insert_assumption(assumptions, res)
                  /\ last' = [NoCall EXCEPT !.op = "pick_assumption",
                                            !.term = res]
      /\ UNCHANGED <<cfgVars, sortVars, termVars, untraceVars, used_options,
                     flags, n_push_levels, satVars, n_symbols, cur_state>>

\* lines 445-450
PickAssumedAssumption ==
  \E res \in assumptions :
    /\ alive
    /\ last' = [NoCall EXCEPT !.op = "pick_assumed_assumption", !.term = res]
    /\ Query

\* reset_sat without the test of d_sat_called (as src/unnamed/part_003
\* lines 371-376 have it)
clear_whenever(called, assumed) == {}

\* lines 482-485: the assumption set after reset_sat
reset_sat_assumptions(called, assumed) ==
  IF called THEN {} ELSE assumed

\* reset_sat that leaves d_sat_called as it is
reset_sat_keeping_called ==
  /\ assumptions' = reset_sat_assumptions(sat_called, assumptions)
  /\ sat_called' = sat_called

\* lines 479-487
reset_sat ==
  /\ assumptions' = reset_sat_assumptions(sat_called, assumptions)
  /\ sat_called' = FALSE

\* reset_sat that also clears d_used_solver_options
ResetSatClearingOptions ==
  /\ alive
  /\ reset_sat
  /\ used_options' = {}
  /\ last' = [NoCall EXCEPT !.op = "reset_sat"]
  /\ UNCHANGED <<cfgVars, alive, sortVars, termVars, untraceVars, flags,
                 n_push_levels, sat_result, n_sat_calls, n_symbols, cur_state>>

ResetSat ==
  /\ alive
  /\ reset_sat
  /\ last' = [NoCall EXCEPT !.op = "reset_sat"]
  /\ UNCHANGED <<cfgVars, alive, sortVars, termVars, untraceVars,
                 used_options, flags, n_push_levels, sat_result, n_sat_calls,
                 n_symbols, cur_state>>

\* lines 452-456, clear_assumptions(), called on its own: the set is
\* emptied whether or not a sat call was made
ClearAssumptions ==
  /\ alive
  /\ assumptions' = {}
  /\ last' = [NoCall EXCEPT !.op = "clear_assumptions"]
  /\ UNCHANGED <<cfgVars, alive, sortVars, termVars, untraceVars,
                 used_options, flags, n_push_levels, satVars, n_symbols,
                 cur_state>>

EmptyBuckets == [k \in SortKinds \cup FpSortKinds |-> {}]

ZeroCounts == [k \in SortKinds \cup FpSortKinds |-> 0]

NoFlags ==
  [incremental |-> FALSE, model_gen |-> FALSE, unsat_assumptions |-> FALSE,
   unsat_cores |-> FALSE]

\* lines 52-63, clear(): <<d_sorts, d_sort_kind_to_sorts, d_n_sort_terms,
\* d_assumptions, d_term_db, d_string_char_values, d_untraced_terms,
\* d_untraced_sorts>> afterwards
\* clear() without line 55, d_sort_kind_to_sorts.clear()
clear_but_buckets(S, buckets, counts, assumed, db, chars, uterms, usorts) ==
  <<{}, buckets, ZeroCounts, {}, {}, {}, {}, {}>>

clear(S, buckets, counts, assumed, db, chars, uterms, usorts) ==
  <<{}, EmptyBuckets, ZeroCounts, {}, {}, {}, {}, {}>>

\* lines 463-464: <<d_used_solver_options, d_pending_get_sorts>> after reset()
reset_containers(used, pending) == <<{}, <<>>>>

\* lines 466-476 without line 476 (d_n_symbols = 0)
scalars_but_symbols(f, npush, called, result, nsat, nterms, nsorts, nsyms) ==
  <<NoFlags, 0, FALSE, "UNKNOWN", 0, 0, 0, nsyms>>

\* lines 466-476: the scalar members reset() assigns, as
\* <<flags, n_push_levels, sat_called, sat_result, n_sat_calls, n_terms,
\*   n_sorts, n_symbols>>
reset_scalars(f, npush, called, result, nsat, nterms, nsorts, nsyms) ==
  <<NoFlags, 0, FALSE, "UNKNOWN", 0, 0, 0, 0>>

\* lines 458-477
reset ==
  LET k == clear(sorts, sort_kind_to_sorts, n_sort_terms, assumptions,
                 term_db, string_char_values, untraced_terms, untraced_sorts)
      c == reset_containers(used_options, pending_get_sorts)
      r == reset_scalars(flags, n_push_levels, sat_called, sat_result,
                         n_sat_calls, n_terms, n_sorts, n_symbols)
  IN  /\ sorts' = k[1]
      /\ sort_kind_to_sorts' = k[2]
      /\ n_sort_terms' = k[3]
      /\ assumptions' = k[4]
      /\ term_db' = k[5]
      /\ string_char_values' = k[6]
      /\ untraced_terms' = k[7]
      /\ untraced_sorts' = k[8]
      /\ used_options' = c[1]
      /\ pending_get_sorts' = c[2]
      /\ flags' = r[1]
      /\ n_push_levels' = r[2]
      /\ sat_called' = r[3]
      /\ sat_result' = r[4]
      /\ n_sat_calls' = r[5]
      /\ n_terms' = r[6]
      /\ n_sorts' = r[7]
      /\ n_symbols' = r[8]

\* lines 52-63, clear(), called on its own: the containers are emptied,
\* the counters d_n_sorts and d_n_terms, the pending get-sort list, the
\* used options and the flags are left as they are
Clear ==
  /\ alive
  /\ LET k == clear(sorts, sort_kind_to_sorts, n_sort_terms, assumptions,
                    term_db, string_char_values, untraced_terms,
                    untraced_sorts)
     IN  /\ sorts' = k[1]
         /\ sort_kind_to_sorts' = k[2]
         /\ n_sort_terms' = k[3]
         /\ assumptions' = k[4]
         /\ term_db' = k[5]
         /\ string_char_values' = k[6]
         /\ untraced_terms' = k[7]
         /\ untraced_sorts' = k[8]
  /\ last' = [NoCall EXCEPT !.op = "clear"]
  /\ UNCHANGED <<cfgVars, alive, n_sorts, n_terms, pending_get_sorts,
                 used_options, flags, n_push_levels, satVars, n_symbols,
                 cur_state>>

\* the members reset() writes hold what the constructor left
Pristine ==
  /\ sorts = {}
  /\ sort_kind_to_sorts = EmptyBuckets
  /\ n_sort_terms = ZeroCounts
  /\ assumptions = {}
  /\ term_db = {}
  /\ string_char_values = {}
  /\ untraced_terms = {}
  /\ untraced_sorts = {}
  /\ used_options = {}
  /\ pending_get_sorts = <<>>
  /\ flags = NoFlags
  /\ n_push_levels = 0
  /\ sat_called = FALSE
  /\ sat_result = "UNKNOWN"
  /\ n_sat_calls = 0
  /\ n_terms = 0
  /\ n_sorts = 0
  /\ n_symbols = 0

\* last.num is 1 when the call had something to discard
Reset ==
  /\ alive
  /\ reset
  /\ last' = [NoCall EXCEPT !.op = "reset",
                            !.num = IF Pristine THEN 0 ELSE 1]
  /\ UNCHANGED <<cfgVars, alive, cur_state>>

(* ------------------------------------------------------------------ *)
(* Terms                                                               *)
(* ------------------------------------------------------------------ *)

\* the term a TermDb::add_term call stores: id ++d_n_terms, with the sort
\* add_sort made of the caller's handle; a term created inside push level
\* k is reachable at level k
new_term(s0, sort_kind) ==
  [id |-> n_terms + 1, kind |-> sort_kind, levels |-> {n_push_levels},
   is_var |-> FALSE, is_value |-> FALSE,
   sort |-> canonical_sort(sorts, set_kind_if_any(s0, sort_kind), n_sorts)]

\* TermDb::add_term with the term's sort s0 and kind: SolverManager::add_sort
\* on the sort, and the term stored
db_add_term(s0, sort_kind) ==
  /\ n_terms < MaxTerms
  /\ add_sort(s0, sort_kind)
  /\ term_db' = term_db \cup {new_term(s0, sort_kind)}
  /\ n_terms' = n_terms + 1
  /\ n_sort_terms' = [n_sort_terms EXCEPT ![sort_kind] = @ + 1]

\* lines 160-167, for a sort the caller picked from the database
AddInput ==
  \E s0 \in sorts, sort_kind \in SortKinds :
    /\ alive
    /\ db_add_term(s0, sort_kind)
    /\ last' = [NoCall EXCEPT !.op = "add_input",
                              !.term = new_term(s0, sort_kind), !.sort = s0]
    /\ UNCHANGED <<string_char_values, pending_get_sorts>>
    /\ ExceptSortsTerms

\* lines 143-151: add_value sets d_is_value and goes on as add_input
new_value(s0, sort_kind) == [new_term(s0, sort_kind) EXCEPT !.is_value = TRUE]

AddValue ==
  \E s0 \in sorts, sort_kind \in SortKinds :
    /\ alive
    /\ n_terms < MaxTerms
    /\ add_sort(s0, sort_kind)
    /\ term_db' = term_db \cup {new_value(s0, sort_kind)}
    /\ n_terms' = n_terms + 1
    /\ n_sort_terms' = [n_sort_terms EXCEPT ![sort_kind] = @ + 1]
    /\ last' = [NoCall EXCEPT !.op = "add_value",
                              !.term = new_value(s0, sort_kind), !.sort = s0]
    /\ UNCHANGED <<string_char_values, pending_get_sorts>>
    /\ ExceptSortsTerms

\* the variable a TermDb::add_var call stores
new_var(s0, sort_kind) == [new_term(s0, sort_kind) EXCEPT !.is_var = TRUE]

\* lines 169-176, for a sort the caller picked from the database and the
\* sort kind the caller names: TermDb::add_var runs add_sort on the pair
\* and stores the variable under sort_kind
AddVar ==
  \E s0 \in sorts, sort_kind \in SortKinds :
    /\ alive
    /\ n_terms < MaxTerms
    /\ add_sort(s0, sort_kind)
    /\ term_db' = term_db \cup {new_var(s0, sort_kind)}
    /\ n_terms' = n_terms + 1
    /\ n_sort_terms' = [n_sort_terms EXCEPT ![sort_kind] = @ + 1]
    /\ last' = [NoCall EXCEPT !.op = "add_var",
                              !.term = new_var(s0, sort_kind), !.sort = s0]
    /\ UNCHANGED <<string_char_values, pending_get_sorts>>
    /\ ExceptSortsTerms

\* TermDb::remove_var, which is not among the sources: the variable leaves
\* the database, the ids given so far stay given
remove_var(db, var) == db \ {var}

\* lines 423-428, for a variable of the database; d_n_sort_terms is not
\* written
RemoveVar ==
  \E var \in {t \in term_db : t.is_var} :
    /\ alive
    /\ term_db' = remove_var(term_db, var)
    /\ last' = [NoCall EXCEPT !.op = "remove_var", !.term = var]
    /\ UNCHANGED <<cfgVars, alive, sortVars, n_terms, n_sort_terms,
                   string_char_values, pending_get_sorts, assumptions,
                   untraceVars, used_options, flags, n_push_levels, satVars,
                   n_symbols, cur_state>>

\* lines 758-767
find_sort(S, h) ==
  IF find_sort_in(S, h) = NoSort THEN h ELSE find_sort_in(S, h)

\* every new term recorded for term-get-sort, seen sort or not
pending_always(pending, unseen, t) == Append(pending, t)

\* lines 194-198
pending_after(pending, unseen, t) ==
  IF unseen THEN Append(pending, t) ELSE pending

\* lines 178-199: the solver reports the sort of the new term as a fresh
\* wrapper (Solver::get_sort, src/src/solver.hpp lines 414-423)
AddTermOf(backends, kinds) ==
  \E be \in backends, sort_kind \in kinds :
    LET lookup == find_sort(sorts, FreshSort(be))
        unseen == lookup.kind = SORT_ANY
        s      == canonical_sort(sorts, set_kind_if_any(lookup, sort_kind),
                                 n_sorts)
    IN  /\ alive
        /\ db_add_term(lookup, sort_kind)
        /\ s.id # 0
        /\ s.kind # SORT_ANY
        /\ pending_get_sorts' =
             pending_after(pending_get_sorts, unseen,
                           new_term(lookup, sort_kind))
        /\ last' = [NoCall EXCEPT !.op = "add_term",
                                  !.term = new_term(lookup, sort_kind),
                                  !.sort = s,
                                  !.ok = unseen]
        /\ UNCHANGED string_char_values
        /\ ExceptSortsTerms

AddTerm == AddTermOf(BackendSorts, SortKinds)

\* lines 153-158
AddStringCharValue ==
  \E t \in term_db :
    /\ alive
    /\ string_char_values' = string_char_values \cup {t}
    /\ last' = [NoCall EXCEPT !.op = "add_string_char_value", !.term = t]
    /\ UNCHANGED <<cfgVars, alive, sortVars, term_db, n_terms, n_sort_terms,
                   pending_get_sorts, assumptions, untraceVars, used_options,
                   flags, n_push_levels, satVars, n_symbols, cur_state>>

(* ------------------------------------------------------------------ *)
(* Untrace id tables                                                   *)
(* ------------------------------------------------------------------ *)

\* the ids a trace file uses for its sorts and terms
UntracedIds == {1, 2}

\* the table as a set of <<untraced id, object>> pairs
is_bound(table, id) == \E e \in table : e[1] = id

bound_to(table, id) == (CHOOSE e \in table : e[1] = id)[2]

\* a table in which the latest registration of an id wins
bind_latest(table, id, obj) ==
  {e \in table : e[1] # id} \cup {<<id, obj>>}

\* lines 593-601 and 568-575: bind only an id that is not bound yet
bind_once(table, id, obj) ==
  IF is_bound(table, id) THEN table ELSE table \cup {<<id, obj>>}

\* lines 578-602. The loop of lines 582-589 takes the first sort with the
\* id in the iteration order of the unordered set: any of them.
RegisterSort ==
  \E untraced_id \in UntracedIds, sort_id \in 0..MaxSortId :
    LET matches == {s \in sorts : s.id = sort_id}
    IN  /\ alive
        /\ IF matches = {}
             THEN /\ last' = [NoCall EXCEPT !.op = "register_sort",
                                            !.num = untraced_id, !.ok = FALSE]
                  /\ UNCHANGED untraced_sorts
             ELSE \E sort \in matches :
                    /\ is_bound(untraced_sorts, untraced_id)
                         => bound_to(untraced_sorts, untraced_id) = sort
                    /\ untraced_sorts' =
                         bind_once(untraced_sorts, untraced_id, sort)
                    /\ last' = [NoCall EXCEPT !.op = "register_sort",
                                              !.num = untraced_id,
                                              !.sort = sort]
        /\ UNCHANGED <<cfgVars, alive, sortVars, termVars, assumptions,
                       untraced_terms, used_options, flags, n_push_levels,
                       satVars, n_symbols, cur_state>>

\* TermDb::get_term(id): the term with the id, null if there is none
get_db_term(db, id) ==
  IF \E t \in db : t.id = id THEN CHOOSE t \in db : t.id = id ELSE NoTerm

\* lines 744-750 and 555-561: the bound object, null if the id is not bound
get_sort(table, id) == IF is_bound(table, id) THEN bound_to(table, id) ELSE NoSort

\* a lookup that answers with whatever the table holds
get_any(table, id) ==
  IF table = {} THEN NoTerm ELSE (CHOOSE e \in table : TRUE)[2]

get_term(table, id) == IF is_bound(table, id) THEN bound_to(table, id) ELSE NoTerm

\* operator== of two Sort handles: the back-end objects decide
sort_equals(a, b) == a.be = b.be

\* lines 563-576. For an id that is bound, line 572 asks both terms for
\* their sort: a null term on either side ends the process there, as sorts
\* that differ do
RegisterTerm ==
  \E untraced_id \in UntracedIds, term_id \in 0..MaxTerms :
    LET term == get_db_term(term_db, term_id)
        t    == get_term(untraced_terms, untraced_id)
    IN  /\ alive
        /\ is_bound(untraced_terms, untraced_id)
             => /\ t # NoTerm
                /\ term # NoTerm
                /\ sort_equals(t.sort, term.sort)
        /\ untraced_terms' = bind_once(untraced_terms, untraced_id, term)
        /\ last' = [NoCall EXCEPT !.op = "register_term", !.num = untraced_id,
                                  !.term = term]
        /\ UNCHANGED <<cfgVars, alive, sortVars, termVars, assumptions,
                       untraced_sorts, used_options, flags, n_push_levels,
                       satVars, n_symbols, cur_state>>

\* the ids a line of a trace may name: those bound, and one never bound
LineIds == UntracedIds \cup {3}

\* The replay of the next line of the trace. The line names a sort
\* (is_sort) or a term by its id and may name the id of the term it returns
\* (returns, 0 for none). The Action looks the id up and raises the untrace
\* exception (src/src/except.cpp lines 116-126), which the replayer reports
\* with the number of the line, when it gets null: no solver call is made
\* for the line, nothing is bound, and no line after it is read. Otherwise
\* the solver call is made, and the term it returns, one the term database
\* holds, is registered under the id of `returns` as register_term (lines
\* 563-576) does it.
UntraceLine ==
  \E id \in LineIds, is_sort \in BOOLEAN, returns \in {0} \cup UntracedIds,
     made \in term_db \cup {NoTerm} :
    LET n == replay.line + 1
        sort == get_sort(untraced_sorts, id)
        term == get_term(untraced_terms, id)
        null == IF is_sort THEN sort = NoSort ELSE term = NoTerm
        t == get_term(untraced_terms, returns)
    IN  /\ alive
        /\ replay.error = 0
        /\ n <= MaxReplayed
        /\ (returns = 0) = (made = NoTerm)
        /\ ~null /\ is_bound(untraced_terms, returns)
             => t # NoTerm /\ sort_equals(t.sort, made.sort)
        /\ replay' = IF null
                       THEN [replay EXCEPT !.line = n, !.error = n]
                       ELSE [replay EXCEPT !.line = n, !.calls = @ \cup {n}]
        /\ untraced_terms' =
             IF null \/ returns = 0 THEN untraced_terms
             ELSE bind_once(untraced_terms, returns, made)
        /\ last' = [NoCall EXCEPT
                      !.op = IF null THEN "UntraceError" ELSE "untrace",
                      !.num = id, !.ok = is_sort,
                      !.sort = IF is_sort THEN sort ELSE NoSort,
                      !.term = IF is_sort THEN NoTerm ELSE term]
        /\ UNCHANGED <<scenario, arith_subtyping, solver_options, mainVars,
                       dd, theories, alive, sortVars, termVars, assumptions,
                       untraced_sorts, used_options, flags, n_push_levels,
                       satVars, n_symbols, cur_state>>

(* ------------------------------------------------------------------ *)
(* What the Actions write into the SolverManager's public members      *)
(* ------------------------------------------------------------------ *)

Results == {"UNKNOWN", "SAT", "UNSAT"}

\* check-sat / check-sat-assuming: d_sat_result, d_sat_called, d_n_sat_calls
sat_call(res) ==
  /\ n_sat_calls < MaxSatCalls
  /\ sat_called' = TRUE
  /\ sat_result' = res
  /\ n_sat_calls' = n_sat_calls + 1

SatCall ==
  \E res \in Results :
    /\ alive
    /\ sat_call(res)
    /\ last' = [NoCall EXCEPT !.op = "check_sat", !.value = res]
    /\ UNCHANGED <<cfgVars, alive, sortVars, termVars, assumptions,
                   untraceVars, used_options, flags, n_push_levels, n_symbols,
                   cur_state>>

\* the deepest level the run explores: deeper where the run is about the
\* numbers of levels pushed and popped, or about the levels of the terms
DepthCap ==
  CASE scenario = "pushpop" -> MaxScopeDepth
    [] scenario = "levels" -> MaxLevelDepth
    [] OTHER -> MaxPushDepth

\* a range of levels as wide as the run can tell apart
n_levels_any == 1..MaxScopeDepth

\* the numbers of levels a push or a pop action draws from: at most
\* MURXLA_MAX_N_PUSH_LEVELS
n_levels == 1..MURXLA_MAX_N_PUSH_LEVELS

\* push of n levels
push(n) ==
  /\ n_push_levels + n <= DepthCap
  /\ n_push_levels' = n_push_levels + n

Push ==
  \E n \in n_levels :
    /\ alive
    /\ push(n)
    /\ last' = [NoCall EXCEPT !.op = "push", !.num = n]
    /\ UNCHANGED <<cfgVars, alive, sortVars, termVars, assumptions,
                   untraceVars, used_options, flags, satVars, n_symbols,
                   cur_state>>

\* the smallest and the largest level of a term
min_level(t) == CHOOSE k \in t.levels : \A j \in t.levels : k <= j

max_level(t) == CHOOSE k \in t.levels : \A j \in t.levels : j <= k

\* a term object after the bags above level d are gone
below(t, d) == [t EXCEPT !.levels = {k \in @ : k <= d}]

\* the term database that drops a term only when all its levels are
\* popped, and leaves the levels of the terms it keeps as they are
drop_by_min(db, d) == {t \in db : \E k \in t.levels : k <= d}

\* the term database after a pop down to level d: the bags of the levels
\* above d are discarded, so a term whose smallest level is above d is in
\* no bag any more, and a term that stays is reachable at its levels up to d
drop_levels(db, d) == {below(t, d) : t \in drop_by_min(db, d)}

\* pop of n levels, no more than the current depth. The Term objects are
\* shared: where an assumption, a string character value, a pending term or
\* an untraced term is one whose levels change, it shows the new levels.
\* d_assumptions, d_string_char_values, d_pending_get_sorts and
\* d_untraced_terms themselves are written by clear_assumptions, reset_sat,
\* clear, reset and the functions that insert only (part_002): a pop takes
\* no element out of them.
pop(n) ==
  LET d == n_push_levels - n
  IN  /\ n <= n_push_levels
      /\ n_push_levels' = d
      /\ term_db' = drop_levels(term_db, d)
      /\ assumptions' = {below(t, d) : t \in assumptions}
      /\ string_char_values' = {below(t, d) : t \in string_char_values}
      /\ pending_get_sorts' =
           [i \in DOMAIN pending_get_sorts |-> below(pending_get_sorts[i], d)]
      /\ untraced_terms' =
           {<<e[1], IF e[2] = NoTerm THEN NoTerm ELSE below(e[2], d)>> :
              e \in untraced_terms}

Pop ==
  \E n \in n_levels :
    /\ alive
    /\ pop(n)
    /\ last' = [NoCall EXCEPT !.op = "pop", !.num = n]
    /\ UNCHANGED <<cfgVars, alive, sortVars, n_terms, n_sort_terms,
                   untraced_sorts, used_options, flags, satVars, n_symbols,
                   cur_state>>

\* A stored term is added again at a level up to the current depth
\* (TermDb::add_term for a term that is interned already): the term keeps
\* its id and is from then on also in the bags of that level.
AddTermAgain ==
  \E t \in term_db, k \in 0..n_push_levels :
    LET again == [t EXCEPT !.levels = @ \cup {k}]
        moved(u) == IF u = t THEN again ELSE u
    IN  /\ alive
        /\ k \notin t.levels
        /\ term_db' = {moved(u) : u \in term_db}
        /\ assumptions' = {moved(u) : u \in assumptions}
        /\ string_char_values' = {moved(u) : u \in string_char_values}
        /\ pending_get_sorts' =
             [i \in DOMAIN pending_get_sorts |-> moved(pending_get_sorts[i])]
        /\ untraced_terms' = {<<e[1], moved(e[2])>> : e \in untraced_terms}
        /\ last' = [NoCall EXCEPT !.op = "add_term_again",
                                  !.term = again, !.num = k]
        /\ UNCHANGED <<cfgVars, alive, sortVars, n_terms, n_sort_terms,
                       untraced_sorts, used_options, flags, n_push_levels,
                       satVars, n_symbols, cur_state>>

\* One of the pick functions of lines 380-434, which forward to the term
\* database: `found` is what the database can answer with. last.value names
\* the function by its arguments. A pick the database has no term for is a
\* call against its precondition (the has_term, has_var, has_value or
\* has_quant_body of the same arguments): the run ends in it and no term is
\* returned; last then tells the function only.
pick(op, form, sort, sort_kind, level, found) ==
  LET call == [NoCall EXCEPT !.op = op, !.value = form, !.sort = sort,
                             !.name = sort_kind, !.num = level]
  IN  /\ alive
      /\ IF found = {}
           THEN /\ alive' = FALSE
                /\ last' = [NoCall EXCEPT !.op = op, !.ok = FALSE]
           ELSE \E res \in found :
                  /\ alive' = alive
                  /\ last' = [call EXCEPT !.term = res]
      /\ UNCHANGED <<cfgVars, sortVars, termVars, assumptions, untraceVars,
                     used_options, flags, n_push_levels, satVars, n_symbols,
                     cur_state>>

\* lines 394-416: pick_term(sort), a term of the sort at any level;
\* pick_term(sort_kind, level), a term of the kind in the bags of the
\* level; pick_term(sort_kind), a term of the kind at any level; and
\* pick_term(), any term
PickTerm ==
  \/ \E sort \in sorts :
       pick("pick_term", "sort", sort, "", 0,
            {t \in term_db : t.sort = sort})
  \/ \E sort_kind \in SortKinds, level \in 0..DepthCap :
       pick("pick_term", "sort_kind, level", NoSort, sort_kind, level,
            terms_of(term_db, sort_kind, level))
  \/ \E sort_kind \in SortKinds :
       pick("pick_term", "sort_kind", NoSort, sort_kind, 0,
            {t \in term_db : t.kind = sort_kind})
  \/ pick("pick_term", "", NoSort, "", 0, term_db)

\* lines 418-422
PickVar == pick("pick_var", "", NoSort, "", 0, pick_var(term_db))

\* lines 380-384
PickValue ==
  \E sort \in sorts :
    pick("pick_value", "sort", sort, "", 0, pick_value(term_db, sort))

\* lines 430-434
PickQuantBody ==
  pick("pick_quant_body", "", NoSort, "", 0, pick_quant_body(term_db))

\* the flag an option name switches (the adapter's
\* get_option_name_incremental() and so on, src/src/solver.hpp lines 434-437)
FlagOf ==
  [o \in OptionNames |->
     CASE o = "incremental" -> "incremental"
       [] o = "produce-models" -> "model_gen"
       [] o = "produce-unsat-cores" -> "unsat_cores"
       [] o = "produce-unsat-assumptions" -> "unsat_assumptions"]

\* set-option, after pick_option: the flag of the option takes its value
SetOptFlags ==
  /\ alive
  /\ last.op = "pick_option" /\ last.name # ""
  /\ flags' = [flags EXCEPT ![FlagOf[last.name]] = (last.value = "true")]
  /\ last' = [last EXCEPT !.op = "set_opt"]
  /\ UNCHANGED <<cfgVars, alive, sortVars, termVars, assumptions, untraceVars,
                 used_options, n_push_levels, satVars, n_symbols, cur_state>>

(* ------------------------------------------------------------------ *)
(* Operator kinds                                                      *)
(* ------------------------------------------------------------------ *)

\* Op: kind, arity (negative: n-ary), argument sort kinds, theory
Op(kind, arity, sort_kind_args, theory) ==
  [kind |-> kind, arity |-> arity, args |-> sort_kind_args,
   theory |-> theory]

\* of the operator table: if-then-else, Boolean, quantifier and bit-vector
\* operators of arity 2, 3 and n-ary; the operators left out take the
\* argument sort kinds of one of these
OpKinds ==
  {Op("ITE", 3, <<"SORT_BOOL", SORT_ANY, SORT_ANY>>, "THEORY_ALL"),
   Op("EQUAL", 2, <<SORT_ANY>>, "THEORY_BOOL"),
   Op("AND", -1, <<"SORT_BOOL">>, "THEORY_BOOL"),
   Op("FORALL", 2, <<SORT_ANY, "SORT_BOOL">>, "THEORY_QUANT"),
   Op("EXISTS", 2, <<SORT_ANY, "SORT_BOOL">>, "THEORY_QUANT"),
   Op("BV_ADD", -1, <<"SORT_BV">>, "THEORY_BV"),
   Op("BV_SUB", 2, <<"SORT_BV">>, "THEORY_BV")}

\* Op::get_arg_sort_kind(i), i from 0: one listed kind stands for every
\* argument
get_arg_sort_kind(op, i) ==
  IF i < Len(op.args) THEN op.args[i + 1] ELSE op.args[1]

\* TermDb::has_quant_body: a Bool term made while a variable was in scope
has_quant_body(db) ==
  \E v \in db, t \in db :
    v.is_var /\ ~t.is_var /\ t.kind = "SORT_BOOL" /\ t.id > v.id

\* an operator counts as having its terms whatever the database holds
has_terms_always(db, op) == TRUE

\* lines 296-310: has_terms
has_terms(db, op) ==
  IF op.arity < 0
    THEN has_term(db, get_arg_sort_kind(op, 0))
    ELSE \A i \in 0..(op.arity - 1) : has_term(db, get_arg_sort_kind(op, i))

\* the quantifiers pass like every other operator
quantifier_unchecked(db, op) == TRUE

\* lines 290-294: the quantifiers ask for a variable and a body
quantifier_ok(db, op) ==
  op.kind \in {"FORALL", "EXISTS"} => has_var(db) /\ has_quant_body(db)

\* lines 284-316: kinds, the operator kinds usable with the terms there are,
\* by theory
usable_kinds(db) ==
  [th \in {op.theory : op \in OpKinds} |->
     {op.kind : op \in {o \in OpKinds : /\ o.theory = th
                                        /\ quantifier_ok(db, o)
                                        /\ has_terms(db, o)}}]

\* a pick among all operator kinds, whatever terms there are
pick_any_op_kind(db, with_terms) == {op.kind : op \in OpKinds}

\* lines 278-331: the kinds pick_op_kind can return
pick_op_kind(db, with_terms) ==
  IF with_terms
    THEN LET kinds == usable_kinds(db)
             served == {th \in DOMAIN kinds : kinds[th] # {}}
         IN  IF served # {}
               THEN UNION {kinds[th] : th \in served}
               ELSE {"UNDEFINED"}
    ELSE {op.kind : op \in OpKinds}

\* last.ok is with_terms
PickOpKind ==
  \E with_terms \in BOOLEAN :
    \E res \in pick_op_kind(term_db, with_terms) :
      /\ alive
      /\ last' = [NoCall EXCEPT !.op = "pick_op_kind", !.name = res,
                                !.ok = with_terms]
      /\ Query

(* ------------------------------------------------------------------ *)
(* main(): command line, trace header, modes, SIGINT                   *)
(* (src/src/main.cpp). The short option names stand for the long ones  *)
(* too, which take the same branches.                                  *)
(* ------------------------------------------------------------------ *)

\* the options of the command line looked at, and two values
Flags == {"-s", "-a", "-d", "-u", "-t", "--smt2", "--print-fsm"}

Values == {"1", "2"}

Tokens == Flags \cup Values

\* the first line of the untraced file: none that starts with
\* set-murxla-options, or the tokens after it
NoTraceLine == [has_header |-> FALSE, opts |-> <<>>]

TraceLines ==
  {NoTraceLine,
   [has_header |-> TRUE, opts |-> <<"-t", "2">>],
   [has_header |-> TRUE, opts |-> <<"--smt2", "2">>],
   [has_header |-> TRUE, opts |-> <<"-u", "2">>]}

\* uint32_t (src/src/options.hpp line 21) as its two 16-bit halves
TwoTo16 == 65536

u32(n) == [hi |-> n \div TwoTo16, lo |-> n % TwoTo16]

UINT32_MAX == [hi |-> TwoTo16 - 1, lo |-> TwoTo16 - 1]

\* Options as its member initialisers leave it (src/src/options.hpp)
DefaultOptions ==
  [seed |-> u32(0), is_seeded |-> FALSE, time |-> 0,
   api_trace_file_name |-> "", untrace_file_name |-> "", dd |-> FALSE,
   solver |-> "", solver_binary |-> "", print_fsm |-> FALSE,
   check_solver |-> FALSE, check_solver_name |-> "",
   fuzz_options |-> FALSE, fuzz_options_filter |-> ""]

\* args[i + 1][0] != '-' (line 549) and find('-') != npos (line 409), for
\* the tokens there are
has_dash(tok) == tok \in Flags \cup {"--check", "--fuzz-opts"}

\* lines 344-349
is_valid_solver_str(name) == name \in {"btor", "bzla", "cvc5", "yices"}

\* lines 619-624: the filter with one more entry
add_filter(filter, tok) == IF filter = "" THEN tok ELSE "filters"

\* the characters of a token
chars(tok) ==
  CASE tok = "1" -> <<"1">>
    [] tok = "2" -> <<"2">>
    [] tok = "yices" -> <<"y", "i", "c", "e", "s">>
    [] OTHER -> <<"-">>

LowerDigits ==
  <<"0", "1", "2", "3", "4", "5", "6", "7", "8", "9",
    "a", "b", "c", "d", "e", "f">>

UpperDigits ==
  <<"0", "1", "2", "3", "4", "5", "6", "7", "8", "9",
    "A", "B", "C", "D", "E", "F">>

\* the character is a digit of the base (std::isxdigit for base 16)
is_digit(c, base) ==
  \E k \in 1..base : c \in {LowerDigits[k], UpperDigits[k]}

digit_value(c) ==
  (CHOOSE k \in 1..16 : c \in {LowerDigits[k], UpperDigits[k]}) - 1

\* line 409: ss.str().find('-') != npos
find_dash(s) == \E i \in DOMAIN s : s[i] = "-"

\* lines 413-415: std::all_of(..., std::isxdigit)
all_xdigit(s) == \A i \in DOMAIN s : is_digit(s[i], 16)

\* acc * base + d in 32 bits; over is set once the value does not fit
mul_add(acc, base, d) ==
  LET lo == acc.v.lo * base + d
      hi == acc.v.hi * base + lo \div TwoTo16
  IN  [v |-> [hi |-> hi % TwoTo16, lo |-> lo % TwoTo16],
       over |-> acc.over \/ hi >= TwoTo16,
       any |-> TRUE]

RECURSIVE digits_value(_, _, _, _)
\* the digits of the base read from s[i] on, up to the first character
\* that is none
digits_value(s, i, base, acc) ==
  IF i > Len(s) \/ ~is_digit(s[i], base) THEN acc
  ELSE digits_value(s, i + 1, base, mul_add(acc, base, digit_value(s[i])))

\* operator>>(uint32_t&) in the base (std::num_get::get, C++11): the value
\* of the leading digits; 0 when there is none, the largest value when
\* they do not fit
extract(s, base) ==
  LET r == digits_value(s, 1, base, [v |-> u32(0), over |-> FALSE,
                                     any |-> FALSE])
  IN  IF ~r.any THEN u32(0) ELSE IF r.over THEN UINT32_MAX ELSE r.v

\* always the decimal reading
read_decimal(s) == extract(s, 10)

\* lines 411-423: hexadecimal when every character is a hexadecimal digit
read_seed(s) == IF all_xdigit(s) THEN extract(s, 16) ELSE extract(s, 10)

\* lines 405-423 for a token without '-'
seed_of(tok) == read_seed(chars(tok))

\* std::atof (line 430): 0 for what is no number
atof(tok) == CASE tok = "1" -> 1 [] tok = "2" -> 2 [] OTHER -> 0

RECURSIVE scan_untrace(_, _, _)
\* lines 358-370: the loop of get_options from index i on
scan_untrace(av, i, r) ==
  IF i > Len(av) THEN r
  ELSE IF av[i] = "-u"
    THEN IF i + 1 > Len(av)
           THEN [r EXCEPT !.ok = FALSE]
           ELSE scan_untrace(av, i + 2,
                             [r EXCEPT !.untrace_file_name = av[i + 1],
                                       !.seen = @ \cup {"-u"}])
    ELSE scan_untrace(av, i + 1, [r EXCEPT !.args = Append(@, av[i])])

\* line 383: args.insert(args.begin(), opts.begin() + 1, opts.end())
prepend(opts, a) == opts \o a

\* lines 351-386. ok is FALSE when -u is the last token: line 365 then
\* builds the message from args.back(), with args empty when every token
\* before was taken as -u and its file
get_options(av, line) ==
  LET r == scan_untrace(av, 1, [ok |-> TRUE, args |-> <<>>,
                                untrace_file_name |-> "", seen |-> {}])
  IN  IF r.ok /\ r.untrace_file_name # "" /\ line.has_header
        THEN [r EXCEPT !.args = prepend(line.opts, @)]
        ELSE r

\* -s that leaves is_seeded as it is
seeded_never(o) == o

\* line 424: options.is_seeded = true
seeded(o) == [o EXCEPT !.is_seeded = TRUE]

RECURSIVE parse_args(_, _, _)
\* lines 395-739: the loop of parse_options from index i on;
\* r = [exit, seen, o], exit "error" after MURXLA_EXIT_ERROR
parse_args(a, i, r) ==
  IF i > Len(a) THEN r
  ELSE LET arg == a[i]
           missing == i + 1 > Len(a)
           took(o) == [r EXCEPT !.o = o, !.seen = @ \cup {arg}]
           failed == [r EXCEPT !.exit = "error"]
       IN  CASE arg = "-s" ->
                  IF missing \/ has_dash(a[i + 1]) THEN failed
                  ELSE parse_args(a, i + 2,
                         took(seeded([r.o EXCEPT !.seed = seed_of(a[i + 1])])))
             [] arg = "-t" ->
                  IF missing THEN failed
                  ELSE parse_args(a, i + 2,
                         took([r.o EXCEPT !.time = atof(a[i + 1])]))
             [] arg = "-a" ->
                  IF missing THEN failed
                  ELSE parse_args(a, i + 2,
                         took([r.o EXCEPT !.api_trace_file_name = a[i + 1]]))
             [] arg = "-d" ->
                  parse_args(a, i + 1, took([r.o EXCEPT !.dd = TRUE]))
             [] arg = "-u" ->
                  IF missing THEN failed
                  ELSE parse_args(a, i + 2,
                         took([r.o EXCEPT !.untrace_file_name = a[i + 1]]))
             [] arg = "--smt2" ->
                  IF ~missing /\ ~has_dash(a[i + 1])
                    THEN IF r.o.solver # "" THEN failed
                         ELSE parse_args(a, i + 2,
                                took([r.o EXCEPT !.solver_binary = a[i + 1],
                                                 !.solver = "smt2"]))
                    ELSE parse_args(a, i + 1, took([r.o EXCEPT !.solver = "smt2"]))
             [] arg = "--print-fsm" ->
                  parse_args(a, i + 1, took([r.o EXCEPT !.print_fsm = TRUE]))
             [] arg = "--check" ->
                  \* lines 494-502: size > i holds for every i of the loop,
                  \* so args[i + 1] is read also when it is args[size]
                  IF missing
                    THEN [took([r.o EXCEPT !.check_solver = TRUE])
                            EXCEPT !.exit = "past_end"]
                  ELSE IF is_valid_solver_str(a[i + 1])
                    THEN parse_args(a, i + 2,
                           took([r.o EXCEPT !.check_solver = TRUE,
                                            !.check_solver_name = a[i + 1]]))
                    ELSE parse_args(a, i + 1,
                           took([r.o EXCEPT !.check_solver = TRUE]))
             [] arg = "--fuzz-opts" ->
                  IF ~missing /\ ~has_dash(a[i + 1])
                    THEN parse_args(a, i + 2,
                           took([r.o EXCEPT
                                   !.fuzz_options = TRUE,
                                   !.fuzz_options_filter =
                                      add_filter(@, a[i + 1])]))
                    ELSE parse_args(a, i + 1,
                           took([r.o EXCEPT !.fuzz_options = TRUE]))
             [] OTHER -> failed

\* lines 741-744
default_solver(o) == IF o.solver = "" THEN [o EXCEPT !.solver = "smt2"] ELSE o

\* lines 746-757
check_defaults(o) ==
  IF o.solver = "smt2"
    THEN [o EXCEPT !.check_solver = FALSE, !.check_solver_name = ""]
  ELSE IF o.check_solver /\ o.check_solver_name = ""
    THEN [o EXCEPT !.check_solver_name = o.solver]
  ELSE o

RECURSIVE trace_header(_, _, _)
\* lines 762-777: the tokens written behind set-murxla-options from index
\* i on; aborted when an assert of lines 764-765 fails
trace_header(a, i, no_assert) ==
  IF i > Len(a) THEN [aborted |-> FALSE, toks |-> <<>>]
  ELSE IF a[i] = "-u" /\ ~no_assert THEN [aborted |-> TRUE, toks |-> <<>>]
  ELSE IF a[i] \in {"-s", "-a"} THEN trace_header(a, i + 2, no_assert)
  ELSE IF a[i] = "-d" THEN trace_header(a, i + 1, no_assert)
  ELSE LET rest == trace_header(a, i + 1, no_assert)
       IN  [rest EXCEPT !.toks = <<a[i]>> \o @]

\* the whole of parse_options (lines 389-779) as
\* [exit, args, seen, o, header]; exit is "" , "error" or "abort", or
\* "past_end" when the loop read args[size] and went on, or
\* "back_of_empty" when the missing argument of -u is reported with
\* args.back() of the empty args (line 365)
parse_options(av, line, no_assert) ==
  LET g == get_options(av, line)
      p == parse_args(g.args, 1,
             [exit |-> "", seen |-> g.seen,
              o |-> [DefaultOptions EXCEPT
                       !.untrace_file_name = g.untrace_file_name]])
      h == trace_header(g.args, 1, no_assert)
      none == <<>>
  IN  IF ~g.ok
        THEN [exit |-> IF g.args = <<>> THEN "back_of_empty" ELSE "error",
              args |-> g.args, seen |-> g.seen,
              o |-> DefaultOptions, header |-> none]
      ELSE IF p.exit = "error"
        THEN [exit |-> "error", args |-> g.args, seen |-> p.seen, o |-> p.o,
              header |-> none]
      ELSE IF h.aborted
        THEN [exit |-> "abort", args |-> g.args, seen |-> p.seen,
              o |-> check_defaults(default_solver(p.o)), header |-> none]
      ELSE [exit |-> p.exit, args |-> g.args, seen |-> p.seen,
            o |-> check_defaults(default_solver(p.o)),
            header |-> <<"set-murxla-options">> \o h.toks]

\* everything of the process but what parse_options writes
ParseFrame ==
  UNCHANGED <<scenario, arith_subtyping, solver_options, dd, theories, replay,
              argv, trace_line, seed_arg,
              ndebug, is_forked, sigint_handler, tmp_dir, runs, results,
              alive, sortVars, termVars, assumptions, untraceVars,
              used_options, flags, n_push_levels, satVars, n_symbols,
              cur_state>>

\* everything of the process but where main stands and what its body writes
MainFrame ==
  UNCHANGED <<scenario, arith_subtyping, solver_options, dd, theories, replay,
              argv, trace_line, seed_arg,
              ndebug, args, seen, options, cmd_line_trace,
              alive, sortVars, termVars, assumptions, untraceVars,
              used_options, flags, n_push_levels, satVars, n_symbols,
              cur_state, last>>

\* src/src/except.cpp lines 67-76, ExitStream: "murxla: ERROR: " is
\* written to std::cerr and the destructor ends the process with
\* std::exit(d_exit). MURXLA_EXIT_ERROR is ExitStream("exit_error"),
\* MURXLA_EXIT_ERROR_CONFIG is ExitStream("exit_error_config").
ExitStream(exit_code) ==
  [pc |-> exit_code, events |-> <<"cerr", "murxla: ERROR: ">>]

\* parse_options on the command line -s <seed_arg>: lines 403-425, and
\* lines 741-779 when the argument is accepted
ParseSeed ==
  /\ pc = "start"
  /\ args' = <<"-s", "seed">>
  /\ IF find_dash(seed_arg)
       THEN /\ pc' = ExitStream("exit_error").pc
            /\ events' = ExitStream("exit_error").events
            /\ UNCHANGED <<seen, options, cmd_line_trace>>
       ELSE /\ pc' = "parsed"
            /\ seen' = {"-s"}
            /\ options' =
                 check_defaults(default_solver(
                   seeded([options EXCEPT !.seed = read_seed(seed_arg)])))
            /\ cmd_line_trace' = <<"set-murxla-options">>
            /\ UNCHANGED events
  /\ UNCHANGED <<scenario, arith_subtyping, solver_options, dd, theories, replay,
                 argv, trace_line, seed_arg,
                 ndebug, is_forked, sigint_handler, tmp_dir, runs, results,
                 alive, sortVars, termVars, assumptions, untraceVars,
                 used_options, flags, n_push_levels, satVars, n_symbols,
                 cur_state, last>>

\* what the read of args[size] (line 497) can come to: the bytes behind
\* the vector's last element are no solver name and the loop ends as if
\* --check had no argument, or the read faults
PastEndOutcomes == {"parsed", "segv"}

\* what args.back() of the empty vector (line 365) comes to: the message
\* is streamed from the element before a null begin(), which faults after
\* the prefix of the message has been written
BackOfEmptyOutcomes == {"segv"}

\* line 790: parse_options(options, argc, argv), lines 389-779; each of its
\* errors leaves through MURXLA_EXIT_ERROR
ParseOptions ==
  /\ pc = "start"
  /\ LET r == parse_options(argv, trace_line, ndebug)
     IN  /\ args' = r.args
         /\ seen' = r.seen
         /\ options' = r.o
         /\ cmd_line_trace' = r.header
         /\ pc' \in CASE r.exit = "error" -> {ExitStream("exit_error").pc}
                      [] r.exit = "abort" -> {"aborted"}
                      [] r.exit = "past_end" -> PastEndOutcomes
                      [] r.exit = "back_of_empty" -> BackOfEmptyOutcomes
                      [] OTHER -> {"parsed"}
         /\ events' = IF r.exit \in {"error", "back_of_empty"}
                        THEN ExitStream("exit_error").events ELSE events
         /\ last' = CASE r.exit = "past_end" ->
                           [NoCall EXCEPT !.op = "parse_options",
                                          !.name = "args[size]"]
                      [] r.exit = "back_of_empty" ->
                           [NoCall EXCEPT !.op = "get_options",
                                          !.name = "args.back()"]
                      [] OTHER -> last
  /\ ParseFrame

\* lines 821-824 and 208-212: set_sigint_handler_stats in continuous mode
handler_for(continuous) ==
  IF continuous THEN "catch_signal_esummary" ELSE "SIG_DFL"

\* a run that is forked only when delta debugging
forked_if_dd(with_dd, continuous) == with_dd

\* line 794: is_forked
forked(with_dd, continuous) == with_dd \/ continuous

\* what the constructor of Murxla does (line 808): it returns, or throws
Setups == {"ok", "MurxlaConfigException", "MurxlaException"}

\* lines 792-802: the modes, the temp directory, and the check of the two
\* file names
CreateTmpDirectory ==
  /\ pc = "parsed"
  /\ LET is_untrace == options.untrace_file_name # ""
         is_continuous == ~options.is_seeded /\ ~is_untrace
     IN  is_forked' = forked(options.dd, is_continuous)
  /\ tmp_dir' = TRUE
  /\ IF /\ options.api_trace_file_name # ""
        /\ options.api_trace_file_name = options.untrace_file_name
       THEN /\ pc' = ExitStream("exit_error").pc
            /\ events' = ExitStream("exit_error").events
       ELSE /\ pc' = "setup"
            /\ UNCHANGED events
  /\ UNCHANGED <<sigint_handler, runs, results>>
  /\ MainFrame

\* lines 804-825 and 880-887: the Murxla object, --print-fsm, and the
\* branch into continuous mode or a single run
EnterMode ==
  /\ pc = "setup"
  /\ \E setup \in Setups :
       LET is_untrace == options.untrace_file_name # ""
           is_continuous == ~options.is_seeded /\ ~is_untrace
           exit == IF setup = "MurxlaConfigException"
                     THEN ExitStream("exit_error_config")
                   ELSE IF setup = "MurxlaException"
                     THEN ExitStream("exit_error")
                   ELSE IF options.print_fsm
                     THEN [pc |-> "printed", events |-> events]
                   ELSE [pc |-> "", events |-> events]
       IN  /\ events' = exit.events
           /\ IF exit.pc # ""
                THEN /\ pc' = exit.pc
                     /\ UNCHANGED sigint_handler
                ELSE /\ pc' = IF is_continuous THEN "test" ELSE "run"
                     /\ sigint_handler' = handler_for(is_continuous)
  /\ UNCHANGED <<is_forked, tmp_dir, runs, results>>
  /\ MainFrame

\* what a run can find: nothing, or an error of one of the three classes
RunResults == {"ok", "solver_failure", "engine_error", "config_error"}

\* one iteration of the loop of murxla.test(), with a seed of its own
\* (shown as 0), in a child; what it traces into is not looked at
TestRun ==
  /\ pc = "test"
  /\ Len(runs) < MaxRuns
  /\ runs' = Append(runs, u32(0))
  /\ \E res \in RunResults :
       results' = Append(results,
                         [found |-> res, api_trace_file_name |-> "",
                          trace_mode |-> "", dd_trace_file_name |-> <<>>])
  /\ UNCHANGED <<pc, is_forked, sigint_handler, tmp_dir, events>>
  /\ MainFrame

\* ss << options.seed (line 854): the seed in decimal digits
seed_str(n) ==
  CASE n = u32(0) -> "0" [] n = u32(1) -> "1" [] n = u32(2) -> "2"

\* the run that traces to stdout when delta debugging too
stdout_unless_named(o, is_untrace) ==
  [api_trace_file_name |-> o.api_trace_file_name,
   dd_trace_file_name |-> <<>>]

\* lines 826-858: the two file names of a single run; the name of the
\* minimised trace is kept as the parts it is put together from
trace_file_names(o, is_untrace) ==
  [api_trace_file_name |->
     IF o.dd /\ o.api_trace_file_name = ""
       THEN "TMP_DIR/tmp.trace" ELSE o.api_trace_file_name,
   dd_trace_file_name |->
     IF ~o.dd THEN <<>>
     ELSE IF is_untrace
       THEN <<"DD::TRACE_PREFIX", o.untrace_file_name>>
       ELSE <<"DD::TRACE_PREFIX", seed_str(o.seed), ".trace">>]

\* lines 826-869 and 880-887: murxla.run with options.seed. The result of
\* a forked run is dropped ((void), line 861); a run in this process that
\* fails ends the process: by the exception caught in lines 880-887, or
\* with the solver
RunOnce ==
  /\ pc = "run"
  /\ \E res \in RunResults :
       LET f == trace_file_names(options, options.untrace_file_name # "")
           exit == IF is_forked \/ res = "ok"
                     THEN [pc |-> IF options.dd THEN "dd" ELSE "finish",
                           events |-> events]
                   ELSE IF res = "config_error"
                     THEN ExitStream("exit_error_config")
                   ELSE IF res = "engine_error"
                     THEN ExitStream("exit_error")
                   ELSE [pc |-> "crashed", events |-> events]
       IN  /\ runs' = Append(runs, options.seed)
           /\ results' =
                Append(results,
                       [found |-> res,
                        api_trace_file_name |-> f.api_trace_file_name,
                        trace_mode |-> IF f.api_trace_file_name = ""
                                         THEN "TO_STDOUT" ELSE "TO_FILE",
                        dd_trace_file_name |-> f.dd_trace_file_name])
           /\ pc' = exit.pc
           /\ events' = exit.events
  /\ UNCHANGED <<is_forked, sigint_handler, tmp_dir>>
  /\ MainFrame

\* lines 871-877: DD(...).run(api_trace_file_name, dd_trace_file_name)
\* minimises the trace of that run
Minimize ==
  /\ pc = "dd"
  /\ pc' = "finish"
  /\ events' = <<"DD::run">>
  /\ UNCHANGED <<is_forked, sigint_handler, tmp_dir, runs, results>>
  /\ MainFrame

\* lines 889-904: the error summary, TMP_DIR removed, and return 0
Finish ==
  /\ pc \in {"test", "finish"}
  /\ pc' = "done"
  /\ tmp_dir' = FALSE
  /\ UNCHANGED <<is_forked, sigint_handler, runs, events, results>>
  /\ MainFrame

\* lines 190-206, catch_signal_esummary, as the events it causes; the
\* summary is printed while caught_signal is 0, which it is on first entry.
\* SIGINT is blocked while its handler runs (the handler is installed with
\* signal()), so raise (line 205) leaves the signal pending and
\* exit(EXIT_ERROR) (line 206) ends the process.
catch_signal_esummary(exists) ==
  <<"error_summary">>
  \o (IF exists THEN <<"remove_tmp_dir">> ELSE <<>>)
  \o <<"restore_handler", "raise", "exit">>

\* a SIGINT while the process runs: the handler if one is installed (the
\* process ends with EXIT_ERROR), the default action (the process is
\* killed there and then) if none is
Sigint ==
  /\ pc \in {"start", "parsed", "setup", "test", "run", "dd", "finish"}
  /\ IF sigint_handler = "catch_signal_esummary"
       THEN /\ pc' = "exit_error"
            /\ events' = catch_signal_esummary(tmp_dir)
            /\ tmp_dir' = FALSE
            /\ sigint_handler' = "SIG_DFL"
       ELSE /\ pc' = "killed"
            /\ events' = <<"terminated">>
            /\ UNCHANGED <<tmp_dir, sigint_handler>>
  /\ UNCHANGED <<is_forked, runs, results>>
  /\ MainFrame

(* ------------------------------------------------------------------ *)
(* The delta debugger (DD::run, called in src/src/main.cpp lines       *)
(* 873-877): the removal of line ranges, the reductions inside a line  *)
(* and the renumbering of the ids, until none of them changes the      *)
(* trace. A line is <<id, size>>: the id it returns (the number the    *)
(* line has in the trace that was recorded) and the number of steps    *)
(* its tokens and literals can still be reduced by.                    *)
(* ------------------------------------------------------------------ *)

\* no trace is being replayed
NoReplay == [line |-> 0, calls |-> {}, error |-> 0]

\* no trace is being minimised
NoDD ==
  [phase |-> "none", pass |-> "lines", n |-> 0, lines |-> {}, deps |-> {},
   memo |-> {}, k |-> 0, i |-> 0, best |-> {}, changed |-> FALSE,
   accepted |-> {}, compacted |-> FALSE]

\* the ids of the lines T
ids(T) == {l[1] : l \in T}

\* the position of the line with id x among the lines T
pos(T, x) == Cardinality({y \in ids(T) : y <= x})

\* the j-th of k contiguous chunks of the lines T
chunk(T, k, j) ==
  LET m == Cardinality(T)
  IN  {l \in T : /\ ((j - 1) * m) \div k < pos(T, l[1])
                 /\ pos(T, l[1]) <= (j * m) \div k}

\* the i-th variant tried with k chunks: chunk i removed for i <= k, then
\* the complement of chunk i - k removed
candidate(T, k, i) ==
  IF i <= k THEN T \ chunk(T, k, i) ELSE chunk(T, k, i - k)

\* no line kept uses an id returned by a line removed; deps holds
\* <<user, producer>>
admissible(C, deps) == \A d \in deps : d[1] \in ids(C) => d[2] \in ids(C)

\* the line at position i with one optional token less, or a literal one
\* step nearer to 0, a width one step nearer to 1, a string one character
\* shorter
shorter(T, i) ==
  {IF pos(T, l[1]) = i THEN <<l[1], l[2] - 1>> ELSE l : l \in T}

\* the ids compacted: the lines get the ids 1, 2, ... in their order
renumber(T) == {<<pos(T, l[1]), l[2]>> : l \in T}

\* the references between the lines T after the same renumbering
renumber_deps(T, deps) ==
  {<<pos(T, d[1]), pos(T, d[2])>> :
     d \in {e \in deps : e[1] \in ids(T) /\ e[2] \in ids(T)}}

\* what the oracle's answer depends on: the lines and their references up
\* to a consistent renumbering of the ids
file(T, deps) == <<renumber(T), renumber_deps(T, deps)>>

\* the smaller variant is kept whatever the oracle said
keep_smaller(best, cand, ok) ==
  IF Cardinality(cand) < Cardinality(best) THEN cand ELSE best

\* the smallest still-interesting variant so far
keep(best, cand, ok) ==
  IF ok /\ Cardinality(cand) < Cardinality(best) THEN cand ELSE best

\* what the delta debugger leaves alone
DdFrame ==
  UNCHANGED <<scenario, arith_subtyping, solver_options, mainVars, theories,
              replay,
              alive, sortVars, termVars, assumptions, untraceVars,
              used_options, flags, n_push_levels, satVars, n_symbols,
              cur_state, last>>

\* the delta debugger with the trace T in place of the one it has, the ids
\* compacted or not; compacted tells whether a line has got a new id
with_lines(d, T, compact) ==
  [d EXCEPT !.lines = IF compact THEN renumber(T) ELSE T,
            !.best = IF compact THEN renumber(T) ELSE T,
            !.deps = IF compact THEN renumber_deps(T, d.deps) ELSE @,
            !.compacted = @ \/ (compact /\ renumber(T) # T)]

\* Pass 1: one variant is written and the oracle is asked, unless the
\* variant removes nothing or breaks a dependency. The oracle is pure and
\* invariant under renumbering: what it said of a file before (memo), it
\* says again. Pass 2: the line at position i is tried one step shorter. A
\* variant the oracle finds interesting becomes the trace, with the ids
\* compacted or not (pass 3), and the same line is tried again; otherwise
\* the next line is.
DdTry ==
  /\ dd.phase = "run"
  /\ \/ /\ dd.pass = "lines"
        /\ dd.i <= 2 * dd.k
        /\ LET C == candidate(dd.lines, dd.k, dd.i)
           IN  IF C = dd.lines \/ ~admissible(C, dd.deps)
                 THEN dd' = [dd EXCEPT !.i = @ + 1]
                 ELSE \E ok \in BOOLEAN :
                        /\ \A e \in dd.memo :
                             e[1] = file(C, dd.deps) => e[2] = ok
                        /\ dd' = [dd EXCEPT
                                    !.i = @ + 1,
                                    !.memo = @ \cup {<<file(C, dd.deps), ok>>},
                                    !.best = keep(@, C, ok),
                                    !.accepted =
                                      IF keep(dd.best, C, ok) # dd.best
                                        THEN @ \cup {file(C, dd.deps)}
                                        ELSE @]
     \/ /\ dd.pass = "tokens"
        /\ dd.i <= Cardinality(dd.lines)
        /\ LET C == shorter(dd.lines, dd.i)
           IN  IF \E l \in C : l[2] < 0
                 THEN dd' = [dd EXCEPT !.i = @ + 1]
                 ELSE \E ok \in BOOLEAN, compact \in BOOLEAN :
                        /\ \A e \in dd.memo :
                             e[1] = file(C, dd.deps) => e[2] = ok
                        /\ ~ok => ~compact
                        /\ dd' =
                             IF ok
                               THEN [with_lines(dd, C, compact) EXCEPT
                                       !.memo =
                                         @ \cup {<<file(C, dd.deps), ok>>},
                                       !.changed = TRUE,
                                       !.accepted =
                                         @ \cup {file(C, dd.deps)}]
                               ELSE [dd EXCEPT
                                       !.i = @ + 1,
                                       !.memo =
                                         @ \cup {<<file(C, dd.deps), ok>>}]
  /\ DdFrame

\* All variants of this chunk size are tried: the smallest interesting one
\* becomes the trace, with the ids compacted or not (pass 3), and the
\* chunks get half the size; after chunks of one line the lines are tried
\* shorter one by one (pass 2); after the last line the passes start again
\* if one of them changed the trace, and the delta debugger is done if none
\* did.
DdAdvance ==
  /\ dd.phase = "run"
  /\ \/ dd.pass = "lines" /\ dd.i > 2 * dd.k
     \/ dd.pass = "tokens" /\ dd.i > Cardinality(dd.lines)
  /\ \E compact \in BOOLEAN :
       LET m == Cardinality(dd.lines)
           m2 == Cardinality(dd.best)
           shrunk == dd.changed \/ dd.best # dd.lines
           twice == IF 2 * dd.k < m2 THEN 2 * dd.k ELSE m2
           next == with_lines(dd, dd.best, compact)
       IN  /\ compact => dd.best # dd.lines
           /\ dd' = IF m2 = 0
                      THEN [next EXCEPT !.phase = "done"]
                    ELSE IF dd.pass = "lines" /\ dd.k < m
                      THEN [next EXCEPT !.k = twice, !.i = 1,
                                        !.changed = shrunk]
                    ELSE IF dd.pass = "lines"
                      THEN [next EXCEPT !.pass = "tokens", !.i = 1,
                                        !.changed = shrunk]
                    ELSE IF dd.changed
                      THEN [next EXCEPT !.pass = "lines",
                                        !.k = IF m2 < 2 THEN m2 ELSE 2,
                                        !.i = 1, !.changed = FALSE]
                    ELSE [next EXCEPT !.phase = "done"]
  /\ DdFrame

(* ------------------------------------------------------------------ *)
(* The theories and sort kinds the constructor enables                 *)
(* (src/unnamed/part_002 lines 16-48 and 847-934)                      *)
(* ------------------------------------------------------------------ *)

\* the elements of a vector
Range(v) == {v[i] : i \in DOMAIN v}

\* the TheoryIds below THEORY_ALL in the order of their values: those
\* add_sort_kinds has a case for
AllTheories ==
  <<"THEORY_ARRAY", "THEORY_BOOL", "THEORY_BV", "THEORY_FP", "THEORY_INT",
    "THEORY_QUANT", "THEORY_REAL", "THEORY_STRING", "THEORY_UF">>

\* the value of a TheoryId
theory_id(t) == (CHOOSE i \in DOMAIN AllTheories : AllTheories[i] = t) - 1

RECURSIVE sort(_)
\* std::sort of a TheoryIdVector (lines 871-872)
sort(v) ==
  IF v = <<>> THEN <<>>
  ELSE LET m == CHOOSE i \in DOMAIN v :
                  \A j \in DOMAIN v : theory_id(v[i]) <= theory_id(v[j])
       IN  <<v[m]>> \o sort(SubSeq(v, 1, m - 1) \o SubSeq(v, m + 1, Len(v)))

RECURSIVE set_intersection(_, _)
\* std::set_intersection of two sorted ranges (lines 875-879): an element
\* that is in both as often as it is in both
set_intersection(a, b) ==
  IF a = <<>> \/ b = <<>> THEN <<>>
  ELSE IF theory_id(a[1]) < theory_id(b[1]) THEN set_intersection(Tail(a), b)
  ELSE IF theory_id(b[1]) < theory_id(a[1]) THEN set_intersection(a, Tail(b))
  ELSE <<a[1]>> \o set_intersection(Tail(a), Tail(b))

\* lines 847-883: d_enabled_theories
add_enabled_theories(enabled_theories, solver_theories) ==
  LET all_theories ==
        IF enabled_theories = <<>> THEN AllTheories
        ELSE enabled_theories \o <<"THEORY_BOOL">>
      tmp == set_intersection(sort(all_theories), sort(solver_theories))
  IN  {tmp[i] : i \in DOMAIN tmp}

\* src/src/config.hpp line 56
MURXLA_MK_TERM_N_ARGS == -1

\* lines 889-933: d_sort_kinds, as the SortKindData emplaced
add_sort_kinds(enabled) ==
  LET data(kind, arity, theory) ==
        [kind |-> kind, arity |-> arity, theory |-> theory]
      for(theory) ==
        CASE theory = "THEORY_ARRAY" -> {data("SORT_ARRAY", 2, theory)}
          [] theory = "THEORY_BOOL" -> {data("SORT_BOOL", 0, theory)}
          [] theory = "THEORY_BV" -> {data("SORT_BV", 0, theory)}
          [] theory = "THEORY_INT" -> {data("SORT_INT", 0, theory)}
          [] theory = "THEORY_REAL" -> {data("SORT_REAL", 0, theory)}
          [] theory = "THEORY_FP" ->
               {data("SORT_RM", 0, theory), data("SORT_FP", 0, theory)}
          [] theory = "THEORY_QUANT" -> {}
          [] theory = "THEORY_STRING" ->
               {data("SORT_STRING", 0, theory), data("SORT_REGLAN", 0, theory)}
          [] theory = "THEORY_UF" ->
               {data("SORT_FUN", MURXLA_MK_TERM_N_ARGS, theory)}
  IN  UNION {for(theory) : theory \in enabled}

\* no SolverManager is being constructed
NoTheories ==
  [phase |-> "none", enabled_theories |-> <<>>, solver_theories |-> <<>>,
   enabled |-> {}, sort_kinds |-> {}]

\* lines 40-41 of the constructor: add_enabled_theories, then
\* add_sort_kinds, whose assert (line 888) ends the process when no theory
\* is enabled and asserts are compiled in
Construct ==
  /\ theories.phase = "new"
  /\ LET enabled == add_enabled_theories(theories.enabled_theories,
                                         theories.solver_theories)
     IN  theories' =
           IF enabled = {} /\ ~ndebug
             THEN [theories EXCEPT !.phase = "aborted", !.enabled = enabled]
             ELSE [theories EXCEPT !.phase = "built", !.enabled = enabled,
                                   !.sort_kinds = add_sort_kinds(enabled)]
  /\ UNCHANGED <<scenario, arith_subtyping, solver_options, mainVars, dd,
                 replay, alive, sortVars, termVars, assumptions, untraceVars,
                 used_options, flags, n_push_levels, satVars, n_symbols,
                 cur_state, last>>

\* the theories disable_theory is called with
Disabled == {"THEORY_BOOL", "THEORY_BV", "THEORY_FP"}

\* lines 119-125: the theory leaves d_enabled_theories if it is there;
\* d_sort_kinds is not written
disable_theory(enabled, theory) ==
  IF theory \notin enabled THEN enabled ELSE enabled \ {theory}

DisableTheory ==
  \E theory \in Disabled :
    /\ alive
    /\ theories.phase = "built"
    /\ theories' =
         [theories EXCEPT !.enabled = disable_theory(@, theory)]
    /\ last' = [NoCall EXCEPT !.op = "disable_theory", !.name = theory]
    /\ UNCHANGED <<scenario, arith_subtyping, solver_options, mainVars, dd,
                   replay, alive, sortVars, termVars, assumptions, untraceVars,
                   used_options, flags, n_push_levels, satVars, n_symbols,
                   cur_state>>

\* add_term for a term of a sort kind of an enabled theory, Boolean,
\* bit-vector, floating-point or rounding-mode
AddTheoryTerm ==
  /\ theories.phase = "built"
  /\ AddTermOf({"BV1"} \cup FpBackendSorts,
               {d.kind : d \in theories.sort_kinds})

\* lines 341-349
has_theory(db, T, with_terms) ==
  IF with_terms
    THEN has_term(db, SORT_ANY)
         /\ (~has_term(db, "SORT_RM") \/ has_term(db, "SORT_FP"))
    ELSE T.enabled # {}

\* lines 355-375: the set pick_theory(with_terms) picks from; SORT_RM is
\* skipped (line 364), every other sort kind with a term gives the theory
\* d_sort_kinds holds for it
theory_candidates(db, T, with_terms) ==
  IF with_terms
    THEN LET kinds == {t.kind : t \in db} \ {"SORT_RM"}
         IN  {d.theory : d \in {e \in T.sort_kinds : e.kind \in kinds}}
    ELSE T.enabled

\* lines 351-376, called where has_theory(with_terms) holds. The assert of
\* line 369 ends a build with asserts when a sort kind with a term belongs
\* to a theory that is not enabled; pick_from_set on an empty set has
\* nothing to return. In both cases the process ends (ok = FALSE).
\* last.num is 1 for with_terms.
PickTheory ==
  \E with_terms \in BOOLEAN :
    LET candidates == theory_candidates(term_db, theories, with_terms)
        call == [NoCall EXCEPT !.op = "pick_theory",
                               !.num = IF with_terms THEN 1 ELSE 0]
        asserted == ndebug \/ candidates \subseteq theories.enabled
    IN  /\ alive
        /\ theories.phase = "built"
        /\ has_theory(term_db, theories, with_terms)
        /\ IF candidates = {} \/ ~asserted
             THEN /\ alive' = FALSE
                  /\ last' = [call EXCEPT !.ok = FALSE]
             ELSE \E res \in candidates :
                    /\ last' = [call EXCEPT !.name = res]
                    /\ UNCHANGED alive
        /\ UNCHANGED <<cfgVars, sortVars, termVars, assumptions, untraceVars,
                       used_options, flags, n_push_levels, satVars, n_symbols,
                       cur_state>>

\* no process: the SolverManager is looked at on its own
MainIdle ==
  /\ argv = <<>>
  /\ trace_line = NoTraceLine
  /\ ndebug = FALSE
  /\ seed_arg = <<>>
  /\ args = <<>>
  /\ seen = {}
  /\ options = DefaultOptions
  /\ cmd_line_trace = <<>>
  /\ pc = "none"
  /\ is_forked = FALSE
  /\ sigint_handler = "SIG_DFL"
  /\ tmp_dir = FALSE
  /\ runs = <<>>
  /\ events = <<>>
  /\ results = <<>>

(* ------------------------------------------------------------------ *)
(* The SolverManager under arbitrary callers                           *)
(* ------------------------------------------------------------------ *)

\* the state the constructor leaves (lines 16-48)
InitSmgr ==
  /\ alive = TRUE
  /\ sorts = {}
  /\ sort_kind_to_sorts = EmptyBuckets
  /\ n_sorts = 0
  /\ term_db = {}
  /\ n_terms = 0
  /\ n_sort_terms = ZeroCounts
  /\ assumptions = {}
  /\ string_char_values = {}
  /\ untraced_sorts = {}
  /\ untraced_terms = {}
  /\ pending_get_sorts = <<>>
  /\ used_options = {}
  /\ flags = NoFlags
  /\ n_push_levels = 0
  /\ sat_called = FALSE
  /\ sat_result = "UNKNOWN"
  /\ n_sat_calls = 0
  /\ n_symbols = 0
  /\ last = NoCall

NoOptions == [names |-> {}, conflicts |-> NoDeps, depends |-> NoDeps]

\* the sort database: add_sort, set_n_sorts, pick_sort, reset
InitSorts ==
  /\ scenario = "sorts"
  /\ arith_subtyping \in BOOLEAN
  /\ solver_options = NoOptions
  /\ cur_state = "none"
  /\ InitSmgr
  /\ replay = NoReplay
  /\ MainIdle
  /\ dd = NoDD
  /\ theories = NoTheories

NextSorts == AddSort \/ SetNSorts \/ PickSort \/ Clear \/ Reset

SpecSorts == InitSorts /\ [][NextSorts]_vars

\* option selection
InitOptions ==
  /\ scenario = "options"
  /\ arith_subtyping = FALSE
  /\ solver_options \in SolverOptionSets
  /\ cur_state = "none"
  /\ InitSmgr
  /\ replay = NoReplay
  /\ MainIdle
  /\ dd = NoDD
  /\ theories = NoTheories

NextOptions ==
  PickOption \/ SetOptFlags \/ PickSymbol \/ SatCall \/ ResetSat \/ Reset

SpecOptions == InitOptions /\ [][NextOptions]_vars

\* terms, assumptions and scope levels
InitTerms ==
  /\ scenario = "terms"
  /\ arith_subtyping = FALSE
  /\ solver_options = NoOptions
  /\ cur_state = "none"
  /\ InitSmgr
  /\ replay = NoReplay
  /\ MainIdle
  /\ dd = NoDD
  /\ theories = NoTheories

NextTerms ==
  \/ AddTerm \/ AddInput
  \/ PickAssumption \/ PickAssumedAssumption
  \/ Push \/ Pop
  \/ SatCall \/ ResetSat \/ ClearAssumptions \/ Clear \/ Reset

SpecTerms == InitTerms /\ [][NextTerms]_vars

\* the untrace id tables
InitUntrace ==
  /\ scenario = "untrace"
  /\ arith_subtyping = FALSE
  /\ solver_options = NoOptions
  /\ cur_state = "none"
  /\ InitSmgr
  /\ replay = NoReplay
  /\ MainIdle
  /\ dd = NoDD
  /\ theories = NoTheories

NextUntrace == AddTerm \/ RegisterSort \/ RegisterTerm \/ Clear \/ Reset

SpecUntrace == InitUntrace /\ [][NextUntrace]_vars

\* the replay of lines against the untrace id tables
InitReplay ==
  /\ scenario = "replay"
  /\ arith_subtyping = FALSE
  /\ solver_options = NoOptions
  /\ cur_state = "none"
  /\ InitSmgr
  /\ replay = NoReplay
  /\ MainIdle
  /\ dd = NoDD
  /\ theories = NoTheories

NextReplay == AddTerm \/ RegisterSort \/ UntraceLine \/ Clear \/ Reset

SpecReplay == InitReplay /\ [][NextReplay]_vars

\* string character values
InitValues ==
  /\ scenario = "values"
  /\ arith_subtyping = FALSE
  /\ solver_options = NoOptions
  /\ cur_state = "none"
  /\ InitSmgr
  /\ replay = NoReplay
  /\ MainIdle
  /\ dd = NoDD
  /\ theories = NoTheories

NextValues == AddInput \/ AddTerm \/ AddStringCharValue \/ Clear \/ Reset

SpecValues == InitValues /\ [][NextValues]_vars

\* push and pop levels, and the terms created inside them
InitLevels ==
  /\ scenario = "levels"
  /\ arith_subtyping = FALSE
  /\ solver_options = NoOptions
  /\ cur_state = "none"
  /\ InitSmgr
  /\ replay = NoReplay
  /\ MainIdle
  /\ dd = NoDD
  /\ theories = NoTheories

\* add_term for Bool and bit-vector terms
AddLevelTerm == AddTermOf({"BV1", "BV8"}, {"SORT_BOOL", "SORT_BV"})

NextLevels ==
  \/ AddLevelTerm \/ AddVar \/ AddValue \/ AddTermAgain \/ Push \/ Pop
  \/ PickTerm \/ PickVar \/ PickValue \/ PickQuantBody \/ PickAssumption

SpecLevels == InitLevels /\ [][NextLevels]_vars

\* the numbers of levels pushed and popped
InitPushPop ==
  /\ scenario = "pushpop"
  /\ arith_subtyping = FALSE
  /\ solver_options = NoOptions
  /\ cur_state = "none"
  /\ InitSmgr
  /\ replay = NoReplay
  /\ MainIdle
  /\ dd = NoDD
  /\ theories = NoTheories

NextPushPop == AddTerm \/ Push \/ Pop \/ Reset

SpecPushPop == InitPushPop /\ [][NextPushPop]_vars

\* operator kinds against the terms and variables there are
InitOps ==
  /\ scenario = "ops"
  /\ arith_subtyping = FALSE
  /\ solver_options = NoOptions
  /\ cur_state = "none"
  /\ InitSmgr
  /\ replay = NoReplay
  /\ MainIdle
  /\ dd = NoDD
  /\ theories = NoTheories

NextOps ==
  AddSort \/ AddTerm \/ AddVar \/ RemoveVar \/ PickOpKind \/ Reset

SpecOps == InitOps /\ [][NextOps]_vars

\* the process from its start: any command line of up to MaxArgs tokens,
\* any first line of the trace, either build
InitMain ==
  /\ scenario = "main"
  /\ arith_subtyping = FALSE
  /\ solver_options = NoOptions
  /\ cur_state = "none"
  /\ InitSmgr
  /\ replay = NoReplay
  /\ argv \in UNION {[1..n -> Tokens] : n \in 0..MaxArgs}
  /\ trace_line \in TraceLines
  /\ ndebug \in BOOLEAN
  /\ seed_arg = <<>>
  /\ args = <<>>
  /\ seen = {}
  /\ options = DefaultOptions
  /\ cmd_line_trace = <<>>
  /\ dd = NoDD
  /\ theories = NoTheories
  /\ pc = "start"
  /\ is_forked = FALSE
  /\ sigint_handler = "SIG_DFL"
  /\ tmp_dir = FALSE
  /\ runs = <<>>
  /\ events = <<>>
  /\ results = <<>>

NextMain ==
  ParseOptions \/ CreateTmpDirectory \/ EnterMode \/ TestRun \/ RunOnce \/ Minimize \/ Finish
  \/ Sigint

SpecMain == InitMain /\ [][NextMain]_vars

\* the characters an argument of -s is made of
SeedChars == {"0", "1", "9", "a", "F", "x", "g", "-"}

\* arguments at and around the largest seed
LongSeeds ==
  {<<"f", "f", "f", "f", "f", "f", "f", "f">>,
   <<"1", "0", "0", "0", "0", "0", "0", "0", "0">>,
   <<"4", "2", "9", "4", "9", "6", "7", "2", "9", "6", "g">>,
   <<"4", "2", "9", "4", "9", "6", "7", "2", "9", "5", "g">>,
   <<"4", "2", "9", "4", "9", "6", "7", "2", "9", "5">>}

\* the -s branch of parse_options on one argument
InitSeed ==
  /\ scenario = "seed"
  /\ arith_subtyping = FALSE
  /\ solver_options = NoOptions
  /\ cur_state = "none"
  /\ InitSmgr
  /\ replay = NoReplay
  /\ argv = <<>>
  /\ trace_line = NoTraceLine
  /\ ndebug = FALSE
  /\ seed_arg \in UNION {[1..n -> SeedChars] : n \in 0..MaxSeedLen}
                    \cup LongSeeds
  /\ args = <<>>
  /\ seen = {}
  /\ options = DefaultOptions
  /\ cmd_line_trace = <<>>
  /\ dd = NoDD
  /\ theories = NoTheories
  /\ pc = "start"
  /\ is_forked = FALSE
  /\ sigint_handler = "SIG_DFL"
  /\ tmp_dir = FALSE
  /\ runs = <<>>
  /\ events = <<>>
  /\ results = <<>>

NextSeed == ParseSeed

SpecSeed == InitSeed /\ [][NextSeed]_vars

\* the options that look at the token behind them, and what may follow
CheckTokens == {"--check", "--fuzz-opts", "--smt2", "-u", "-s", "1", "yices"}

\* parse_options alone, on command lines over CheckTokens
InitParse ==
  /\ scenario = "parse"
  /\ arith_subtyping = FALSE
  /\ solver_options = NoOptions
  /\ cur_state = "none"
  /\ InitSmgr
  /\ replay = NoReplay
  /\ argv \in UNION {[1..n -> CheckTokens] : n \in 0..MaxArgs}
  /\ trace_line \in TraceLines
  /\ ndebug \in BOOLEAN
  /\ seed_arg = <<>>
  /\ args = <<>>
  /\ seen = {}
  /\ options = DefaultOptions
  /\ cmd_line_trace = <<>>
  /\ dd = NoDD
  /\ theories = NoTheories
  /\ pc = "start"
  /\ is_forked = FALSE
  /\ sigint_handler = "SIG_DFL"
  /\ tmp_dir = FALSE
  /\ runs = <<>>
  /\ events = <<>>
  /\ results = <<>>

NextParse == ParseOptions

SpecParse == InitParse /\ [][NextParse]_vars

\* the delta debugger on a trace of up to MaxLines lines that the oracle
\* finds interesting, where line 2 may use an id that line 1 returns
InitDD ==
  /\ scenario = "dd"
  /\ arith_subtyping = FALSE
  /\ solver_options = NoOptions
  /\ cur_state = "none"
  /\ InitSmgr
  /\ replay = NoReplay
  /\ MainIdle
  /\ theories = NoTheories
  /\ \E n \in 1..MaxLines, deps \in {{}, {<<2, 1>>}},
        sizes \in [1..MaxLines -> 0..MaxLineSize] :
       LET T == {<<x, sizes[x]>> : x \in 1..n}
       IN  /\ \A x \in (n + 1)..MaxLines : sizes[x] = 0
           /\ dd = [phase |-> "run", pass |-> "lines", n |-> n, lines |-> T,
                    deps |-> deps, memo |-> {<<file(T, deps), TRUE>>},
                    k |-> IF n < 2 THEN n ELSE 2, i |-> 1, best |-> T,
                    changed |-> FALSE, accepted |-> {},
                    compacted |-> FALSE]

NextDD == DdTry \/ DdAdvance

\* the constructor, for any theories the solver supports, up to
\* MaxRequested theories asked for (among four of them, in any order and
\* more than once), and either build
InitTheories ==
  /\ scenario = "theories"
  /\ arith_subtyping = FALSE
  /\ solver_options = NoOptions
  /\ cur_state = "none"
  /\ InitSmgr
  /\ replay = NoReplay
  /\ argv = <<>>
  /\ trace_line = NoTraceLine
  /\ ndebug \in BOOLEAN
  /\ seed_arg = <<>>
  /\ args = <<>>
  /\ seen = {}
  /\ options = DefaultOptions
  /\ cmd_line_trace = <<>>
  /\ pc = "none"
  /\ is_forked = FALSE
  /\ sigint_handler = "SIG_DFL"
  /\ tmp_dir = FALSE
  /\ runs = <<>>
  /\ events = <<>>
  /\ results = <<>>
  /\ dd = NoDD
  /\ \E requested \in
          UNION {[1..n -> {"THEORY_BOOL", "THEORY_BV", "THEORY_FP",
                           "THEORY_QUANT"}] : n \in 0..MaxRequested},
        supported \in SUBSET Range(AllTheories) :
       LET in_supported(t) == t \in supported
           backwards == [i \in DOMAIN AllTheories |->
                           AllTheories[Len(AllTheories) + 1 - i]]
       IN  theories = [NoTheories EXCEPT
                         !.phase = "new",
                         !.enabled_theories = requested,
                         !.solver_theories =
                           SelectSeq(backwards, in_supported)]

NextTheories == Construct \/ DisableTheory

SpecTheories == InitTheories /\ [][NextTheories]_vars

\* pick_theory on the terms of a constructed SolverManager
InitPickTheory ==
  /\ scenario = "pick_theory"
  /\ arith_subtyping = FALSE
  /\ solver_options = NoOptions
  /\ cur_state = "none"
  /\ InitSmgr
  /\ replay = NoReplay
  /\ argv = <<>>
  /\ trace_line = NoTraceLine
  /\ ndebug \in BOOLEAN
  /\ seed_arg = <<>>
  /\ args = <<>>
  /\ seen = {}
  /\ options = DefaultOptions
  /\ cmd_line_trace = <<>>
  /\ pc = "none"
  /\ is_forked = FALSE
  /\ sigint_handler = "SIG_DFL"
  /\ tmp_dir = FALSE
  /\ runs = <<>>
  /\ events = <<>>
  /\ results = <<>>
  /\ dd = NoDD
  /\ \E requested \in {<<>>, <<"THEORY_FP">>, <<"THEORY_BV">>},
        supported \in {Range(AllTheories),
                       {"THEORY_BOOL", "THEORY_BV", "THEORY_FP"}} :
       LET in_supported(t) == t \in supported
       IN  theories = [NoTheories EXCEPT
                         !.phase = "new",
                         !.enabled_theories = requested,
                         !.solver_theories =
                           SelectSeq(AllTheories, in_supported)]

NextPickTheory ==
  Construct \/ DisableTheory \/ AddTheoryTerm \/ PickTheory \/ Clear \/ Reset

SpecPickTheory == InitPickTheory /\ [][NextPickTheory]_vars

SpecDD == InitDD /\ [][NextDD]_vars

\* DD::run is a loop that nothing interrupts: it goes on while it can
FairSpecDD == SpecDD /\ WF_vars(NextDD)

\* all of them: a run exercises one group of operations
Init == InitSorts \/ InitOptions \/ InitTerms \/ InitUntrace \/ InitValues

Next ==
  \/ scenario = "sorts" /\ NextSorts
  \/ scenario = "options" /\ NextOptions
  \/ scenario = "terms" /\ NextTerms
  \/ scenario = "untrace" /\ NextUntrace
  \/ scenario = "values" /\ NextValues

Spec == Init /\ [][Next]_vars

(* ------------------------------------------------------------------ *)
(* The FSM. The header declares State (d_id, d_is_final, d_actions,    *)
(* d_weights) and FSM (d_states, d_cur_state); State::run and FSM::run *)
(* are declared there and defined elsewhere, so the run loop and the   *)
(* configuration below follow the documented behaviour.                *)
(* ------------------------------------------------------------------ *)

\* FSM::d_states, by State::d_id
FsmStates == {"new", "opt", "sorts", "inputs", "assert", "sat", "delete"}

\* State::d_is_final
is_final(st) == st = "delete"

\* ActionTuple with the weight State::add_action stores beside it;
\* next = "" is the default argument next = nullptr
ActionTuple(a, w, n) == [action |-> a, weight |-> w, next |-> n]

\* State::d_actions and State::d_weights of every state
StateActions ==
  [st \in FsmStates |->
     CASE st = "new"    -> {ActionTuple("new_solver", 1, "opt")}
       [] st = "opt"    -> {ActionTuple("set_option", 5, ""),
                            ActionTuple("set_option", 1, "sorts")}
       [] st = "sorts"  -> {ActionTuple("mk_sort", 5, ""),
                            ActionTuple("mk_sort", 1, "inputs")}
       [] st = "inputs" -> {ActionTuple("mk_const", 5, ""),
                            ActionTuple("mk_const", 1, "assert")}
       [] st = "assert" -> {ActionTuple("assert_formula", 5, ""),
                            ActionTuple("check_sat", 1, "sat")}
       [] st = "sat"    -> {ActionTuple("get_value", 5, ""),
                            ActionTuple("get_model", 2, ""),
                            ActionTuple("get_unsat_core", 2, ""),
                            ActionTuple("get_unsat_assumptions", 2, ""),
                            ActionTuple("check_sat", 1, ""),
                            ActionTuple("reset_assertions", 1, ""),
                            ActionTuple("reset_assertions", 1, "assert"),
                            ActionTuple("reset", 1, "opt")}
       [] OTHER         -> {}]

\* the state an FSM step without an applicable action moves to
DefaultNext ==
  [st \in FsmStates |->
     CASE st = "new"    -> "opt"
       [] st = "opt"    -> "sorts"
       [] st = "sorts"  -> "inputs"
       [] st = "inputs" -> "assert"
       [] st = "assert" -> "sat"
       [] OTHER         -> "delete"]

\* the actions that read what the last sat call left in the solver
ModelQueries ==
  {"get_value", "get_model", "get_unsat_core", "get_unsat_assumptions"}

\* actions without a precondition
always_applicable(a) == TRUE

\* Action::applicable() against the SolverManager
applicable(a) ==
  CASE a = "new_solver"     -> TRUE
    [] a = "set_option"     -> solver_options.names # {}
                               /\ used_options # solver_options.names
    [] a = "mk_sort"        -> n_sorts < MaxSortId
    [] a = "mk_const"       -> has_sort(SORT_ANY) /\ n_terms < MaxTerms
    [] a = "assert_formula" -> \E t \in term_db : t.kind = "SORT_BOOL"
    [] a = "check_sat"      -> n_sat_calls < MaxSatCalls
    [] a = "get_value"      -> flags.model_gen /\ sat_called
                               /\ sat_result = "SAT"
    [] a = "get_model"      -> flags.model_gen /\ sat_called
                               /\ sat_result = "SAT"
    [] a = "get_unsat_core" -> flags.unsat_cores /\ sat_called
                               /\ sat_result = "UNSAT"
    [] a = "get_unsat_assumptions"
                            -> flags.unsat_assumptions /\ sat_called
                               /\ sat_result = "UNSAT"
    [] a = "reset_assertions"
                            -> sat_called \/ assumptions # {}
                               \/ n_push_levels > 0
    [] a = "reset"          -> ~Pristine
    [] OTHER                -> FALSE

\* the tuples the weighted draw of State::run chooses among
candidates(st) ==
  {tup \in StateActions[st] : tup.weight > 0 /\ applicable(tup.action)}

\* the state after running a tuple: its next state, the same state if it
\* has none
next_state(st, tup) == IF tup.next = "" THEN st ELSE tup.next

\* Action::run() of the action named a
run(a) ==
  \/ /\ a \in {"new_solver", "assert_formula"} \cup ModelQueries
     /\ last' = [NoCall EXCEPT !.op = a]
     /\ UNCHANGED <<alive, sortVars, termVars, assumptions, untraceVars,
                    used_options, flags, n_push_levels, satVars, n_symbols>>
  \/ /\ a = "set_option"
     /\ pick_option
     /\ flags' = IF last'.name = "" THEN flags
                 ELSE [flags EXCEPT
                         ![FlagOf[last'.name]] = (last'.value = "true")]
     /\ UNCHANGED <<sortVars, termVars, assumptions, untraceVars,
                    n_push_levels, satVars, n_symbols>>
  \/ /\ a = "mk_sort"
     /\ \E be \in BackendSorts :
          \E sort_kind \in SolverKinds(be, arith_subtyping) :
            /\ add_sort(FreshSort(be), sort_kind)
            /\ last' = [NoCall EXCEPT
                          !.op = a, !.name = sort_kind,
                          !.sort = canonical_sort(
                                     sorts,
                                     set_kind_if_any(FreshSort(be), sort_kind),
                                     n_sorts)]
     /\ UNCHANGED <<alive, termVars, assumptions, untraceVars, used_options,
                    flags, n_push_levels, satVars, n_symbols>>
  \/ /\ a = "mk_const"
     /\ \E s0 \in sorts :
          /\ db_add_term(s0, s0.kind)
          /\ last' = [NoCall EXCEPT !.op = a, !.term = new_term(s0, s0.kind),
                                    !.sort = s0]
     /\ UNCHANGED <<alive, string_char_values, pending_get_sorts, assumptions,
                    untraceVars, used_options, flags, n_push_levels, satVars,
                    n_symbols>>
  \/ /\ a = "check_sat"
     /\ \E res \in Results :
          /\ sat_call(res)
          /\ last' = [NoCall EXCEPT !.op = a, !.value = res]
     /\ assumptions' = reset_sat_assumptions(sat_called, assumptions)
     /\ UNCHANGED <<alive, sortVars, termVars, untraceVars, used_options,
                    flags, n_push_levels, n_symbols>>
  \/ /\ a = "reset_assertions"
     /\ reset_sat
     /\ n_push_levels' = 0
     /\ last' = [NoCall EXCEPT !.op = a]
     /\ UNCHANGED <<alive, sortVars, termVars, untraceVars, used_options,
                    flags, sat_result, n_sat_calls, n_symbols>>
  \/ /\ a = "reset"
     /\ reset
     /\ last' = [NoCall EXCEPT !.op = a]
     /\ UNCHANGED alive

\* what `last` shows after the action named a has run: set_option is
\* the pick_option call it makes
last_op(a) == IF a = "set_option" THEN "pick_option" ELSE a

\* one iteration of FSM::run: State::run of the current state
FsmStep ==
  /\ alive
  /\ ~is_final(cur_state)
  /\ IF candidates(cur_state) = {}
       THEN /\ cur_state' = DefaultNext[cur_state]
            /\ last' = [NoCall EXCEPT !.op = "no_op"]
            /\ UNCHANGED <<alive, sortVars, termVars, assumptions,
                           untraceVars, used_options, flags, n_push_levels,
                           satVars, n_symbols>>
       ELSE \E tup \in candidates(cur_state) :
              /\ run(tup.action)
              /\ cur_state' = next_state(cur_state, tup)
  /\ UNCHANGED cfgVars

\* the option sets of the solvers the FSM is run against: none, two
\* independent options, two options that depend on each other, the three
\* options the model queries ask for
FsmOptionSets ==
  {o \in SolverOptionSets : o.names \subseteq {"incremental", "produce-models"}}
  \cup {[names |-> {"incremental", "produce-models"}, conflicts |-> NoDeps,
         depends |-> NoDeps],
        [names |-> OptionNames \ {"incremental"}, conflicts |-> NoDeps,
         depends |-> NoDeps]}

\* FSM::set_init_state: the run starts in state new
InitFSM ==
  /\ scenario = "fsm"
  /\ arith_subtyping = FALSE
  /\ solver_options \in FsmOptionSets
  /\ cur_state = "new"
  /\ InitSmgr
  /\ replay = NoReplay
  /\ MainIdle
  /\ dd = NoDD
  /\ theories = NoTheories

SpecFSM == InitFSM /\ [][FsmStep]_vars

(* ------------------------------------------------------------------ *)
(* Properties                                                          *)
(* ------------------------------------------------------------------ *)

\* C1: after any sequence of add_sort, set_n_sorts and reset, every sort of
\* the database has 1 <= id <= n_sorts and is in the bucket of its own kind,
\* and a sort returned by pick_sort has a nonzero id. Violated: set_n_sorts
\* takes any value, also one below an id already handed out.
C1_SortIdsWithinCounter ==
  /\ \A s \in sorts :
       /\ 1 <= s.id
       /\ s.id <= n_sorts
       /\ s \in sort_kind_to_sorts[s.kind]
  /\ last.op = "pick_sort" => last.sort.id # 0

\* C2: an option returned by pick_option has, when it is chosen, none of its
\* conflicts and all of its depends in used_options. (A call that returns
\* the same name and value as the call before it changes nothing; the same
\* choice is made in the state that differs in the recorded value only.)
C2_ChosenOptionAdmissible ==
  [][(last'.op = "pick_option" /\ last'.name # "")
       => /\ \A c \in solver_options.conflicts[last'.name] :
               c \notin used_options
          /\ \A d \in solver_options.depends[last'.name] :
               d \in used_options]_vars

\* C2: an option that depends on another one has been returned
C2_Witness ==
  /\ last.op = "pick_option"
  /\ last.name # ""
  /\ solver_options.depends[last.name] # {}

\* C3 as stated: pick_option never returns an option that is in
\* used_options already
C3_NeverReturnsUsedOption ==
  [][(last'.op = "pick_option" /\ last'.name # "")
       => last'.name \notin used_options]_vars

\* C3: pick_option may return an option that is in used_options already;
\* the option it returns is in used_options afterwards, and the call adds
\* nothing else and removes nothing
C3_ReturnedOptionRecorded ==
  [][(last'.op = "pick_option" /\ last'.name # "")
       => /\ last'.name \in used_options'
          /\ used_options' = used_options \cup {last'.name}]_vars

\* C3: an option was returned that had been used before
C3_Witness ==
  /\ last.op = "pick_option"
  /\ last.name # ""
  /\ last.num = 1
  /\ last.name \in used_options

\* C4 as stated: every reset_sat call leaves the assumption set empty
C4_ResetSatAlwaysEmpties ==
  [][last'.op = "reset_sat" => assumptions' = {}]_vars

\* C4: reset_sat empties the assumption set when sat_called is set and
\* leaves it as it is otherwise; clear_assumptions and clear, called on
\* their own, empty it; no call other than these and reset removes an
\* assumption
C4_AssumptionsEmptiedAfterSatCall ==
  [][/\ last'.op = "reset_sat"
          => assumptions' = IF sat_called THEN {} ELSE assumptions
     /\ last'.op \in {"clear_assumptions", "clear"} => assumptions' = {}
     /\ last'.op \notin {"reset_sat", "clear_assumptions", "clear", "reset"}
          => assumptions \subseteq assumptions']_vars

\* C4: reset_sat has returned and assumptions are still there
C4_Witness ==
  /\ last.op = "reset_sat"
  /\ assumptions # {}
  /\ ~sat_called

\* C5: reset_sat leaves used_options, the sort database, n_sorts, n_symbols
\* and n_push_levels as they are, and no call but reset removes an option
\* from used_options
C5_ResetSatKeepsOptions ==
  [][/\ last'.op = "reset_sat"
          => UNCHANGED <<used_options, sorts, sort_kind_to_sorts, n_sorts,
                         n_symbols, n_push_levels>>
     /\ last'.op # "reset" => used_options \subseteq used_options']_vars

\* C5: reset_sat has returned and options are still recorded as used
C5_Witness ==
  /\ last.op = "reset_sat"
  /\ used_options # {}
  /\ n_symbols > 0

\* C6: after reset every member is what the constructor left, so the next
\* sort added gets id 1 and the next simple symbol the number 0
C6_ResetRestoresInitialState ==
  [][/\ last'.op = "reset" => Pristine'
     /\ (last.op = "reset" /\ last'.op \in {"add_sort", "add_term"})
          => last'.sort.id = 1
     /\ (last.op = "reset" /\ last'.op = "pick_symbol")
          => last'.num = 0]_vars

\* C6: reset has returned from a call that had something to discard
C6_Witness ==
  /\ last.op = "reset"
  /\ last.num = 1
  /\ Pristine

\* C7: the k-th distinct sort added gets id k and no two sorts of the
\* database share an id. Violated: after set_n_sorts the next new sort takes
\* the id after the value given, whatever ids exist.
C7_SortIdsDenseAndUnique ==
  /\ \A s, u \in sorts : s.id = u.id => s = u
  /\ {s.id : s \in sorts} = 1..Cardinality(sorts)

\* C8: no call but reset and the clear it is made of removes a sort from
\* the sort set or from a bucket
C8_SortsOnlyGrow ==
  [][last'.op \notin {"reset", "clear"}
       => /\ sorts \subseteq sorts'
          /\ \A k \in SortKinds :
               sort_kind_to_sorts[k] \subseteq sort_kind_to_sorts'[k]]_vars

\* C8: a second sort was added to a bucket and the first is still there
C8_Witness ==
  /\ last.op = "add_sort"
  /\ \E k \in SortKinds : Cardinality(sort_kind_to_sorts[k]) >= 2

\* C10: in every non-final state of a live run the FSM can take a step; a
\* step runs an action of the current state that is applicable, and when no
\* action of the state is applicable it changes nothing but the state, which
\* becomes the default next state
C10_FsmNeverStuck ==
  /\ []((alive /\ ~is_final(cur_state)) => ENABLED FsmStep)
  /\ [][/\ last'.op = "no_op"
            => /\ candidates(cur_state) = {}
               /\ cur_state' = DefaultNext[cur_state]
               /\ UNCHANGED <<sortVars, termVars, assumptions, used_options,
                              flags, satVars>>
        /\ last'.op # "no_op"
            => \E tup \in candidates(cur_state) :
                 /\ last_op(tup.action) = last'.op
                 /\ cur_state' = next_state(cur_state, tup)]_vars

\* C10: the FSM has left a non-final state by the default transition
C10_Witness ==
  /\ last.op = "no_op"
  /\ cur_state = "sorts"
  /\ ~is_final(cur_state)

\* C11: get-value, get-model, get-unsat-core and get-unsat-assumptions are
\* emitted only while sat_called is true: sat_called is false at the start,
\* is false after every reset, reset-assertions and reset_sat, and only a
\* check-sat makes it true again.
C11_QueriesOnlyAfterSatCall ==
  /\ ~sat_called
  /\ [][/\ last'.op \in ModelQueries => sat_called /\ sat_called'
        /\ last'.op \in {"reset", "reset_assertions", "reset_sat"}
              => ~sat_called'
        /\ ~sat_called /\ sat_called' => last'.op = "check_sat"]_vars

\* in state sat after a reset-assertions, with model generation on and a
\* SAT result still stored: only sat_called keeps get-value away
C11_Witness ==
  /\ cur_state = "sat"
  /\ last.op = "reset_assertions"
  /\ flags.model_gen
  /\ sat_result = "SAT"
  /\ ~sat_called
  /\ \A tup \in candidates(cur_state) : tup.action \notin ModelQueries

\* the calls that return a term of the term database
PickCalls ==
  {"pick_term", "pick_var", "pick_value", "pick_quant_body",
   "pick_assumption"}

\* C12: after a pop of m levels from depth d no term whose smallest level
\* is above d - m is in the term database any more, under any id, so that
\* no pick_term, pick_var, pick_value, pick_quant_body or pick_assumption
\* can return it; a term with a level of at most d - m stays, reachable at
\* its levels up to d - m; the largest level of every term of the database
\* is at most the current depth; and every term a pick returns is a term of
\* the database, of the sort, the sort kind and the level asked for.
C12_PoppedTermsNotPickable ==
  /\ [](\A t \in term_db :
          t.levels # {} /\ max_level(t) <= n_push_levels)
  /\ [][/\ last'.op = "pop" =>
             LET d == n_push_levels - last'.num
             IN  /\ \A t \in term_db :
                      IF min_level(t) > d
                        THEN \A u \in term_db' : u.id # t.id
                        ELSE /\ below(t, d) \in term_db'
                             /\ \A u \in term_db' :
                                  u.id = t.id => u = below(t, d)
                 /\ \A u \in term_db' : \E t \in term_db : u.id = t.id
                 /\ \A u \in term_db' : max_level(u) <= d
        /\ last'.op \in PickCalls /\ last'.ok =>
             /\ last'.term \in term_db
             /\ max_level(last'.term) <= n_push_levels
             /\ last'.value = "sort" => last'.term.sort = last'.sort
             /\ last'.name # "" => last'.term.kind = last'.name
             /\ last'.value = "sort_kind, level" =>
                  last'.num \in last'.term.levels
             /\ last'.op = "pick_assumption" => 0 \in last'.term.levels
             /\ last'.op = "pick_var" => last'.term.is_var
             /\ last'.op = "pick_value" => last'.term.is_value]_vars

\* a pop from depth 2 to depth 1 has removed a term and has left another
\* one, which was reachable at more levels than it is now
C12_Witness ==
  /\ last.op = "pop"
  /\ n_push_levels = 1
  /\ Cardinality(term_db) < n_terms
  /\ \E t \in term_db : t.levels = {0, 1}

\* C13: a push adds between 1 and 5 levels, a pop removes between 1 and 5
\* levels and no more than there are, n_push_levels is never negative, and
\* it is 0 after a reset.
C13_PushPopWithinLimits ==
  /\ [](n_push_levels >= 0)
  /\ [][/\ last'.op = "push" =>
             /\ n_push_levels' - n_push_levels \in 1..5
             /\ last'.num = n_push_levels' - n_push_levels
        /\ last'.op = "pop" =>
             /\ n_push_levels - n_push_levels' \in 1..5
             /\ n_push_levels - n_push_levels' <= n_push_levels
             /\ last'.num = n_push_levels - n_push_levels'
        /\ last'.op = "reset" => n_push_levels' = 0]_vars

\* five levels popped at once from a depth of more than five levels
C13_Witness == last.op = "pop" /\ last.num = 5 /\ n_push_levels = 2

\* C14: pick_op_kind(with_terms = true) returns FORALL or EXISTS only when
\* the term database holds a variable and a quantifier body.
C14_QuantifiersNeedVarAndBody ==
  [][last'.op = "pick_op_kind" /\ last'.ok
       /\ last'.name \in {"FORALL", "EXISTS"}
     => has_var(term_db) /\ has_quant_body(term_db)]_vars

\* a quantifier has been returned for a database with a variable and a body
C14_Witness ==
  /\ last.op = "pick_op_kind"
  /\ last.ok
  /\ last.name = "FORALL"
  /\ has_var(term_db)
  /\ has_quant_body(term_db)

\* C15 as stated: an operator pick_op_kind(with_terms = true) returns finds,
\* for every sort kind K, at least as many terms of kind K as it has
\* arguments of kind K (an n-ary operator has at least -arity of them).
\* Violated: one term is enough for any number of arguments of its kind.
C15_AsManyTermsAsArguments ==
  [][last'.op = "pick_op_kind" /\ last'.ok /\ last'.name # "UNDEFINED"
     => LET op == CHOOSE o \in OpKinds : o.kind = last'.name
            needed(K) ==
              IF op.arity < 0
                THEN IF get_arg_sort_kind(op, 0) = K THEN -op.arity ELSE 0
                ELSE Cardinality({i \in 0..(op.arity - 1) :
                                    get_arg_sort_kind(op, i) = K})
            count(K) ==
              IF K = SORT_ANY THEN Cardinality(term_db)
              ELSE Cardinality({x \in term_db : x.kind = K})
        IN  \A K \in SortKinds \cup {SORT_ANY} : count(K) >= needed(K)]_vars

\* C15, amended: an operator pick_op_kind(with_terms = true) returns finds
\* at least one term of every sort kind it has an argument of (an n-ary
\* operator: of the kind of its first argument); UNDEFINED is returned
\* exactly when no operator of the table does.
C15_EveryArgumentKindHasATerm ==
  [][last'.op = "pick_op_kind" /\ last'.ok
     => LET count(K) ==
              IF K = SORT_ANY THEN Cardinality(term_db)
              ELSE Cardinality({x \in term_db : x.kind = K})
            positions(op) ==
              IF op.arity < 0 THEN {0} ELSE 0..(op.arity - 1)
            served(op) ==
              /\ \A i \in positions(op) :
                   count(get_arg_sort_kind(op, i)) >= 1
              /\ op.kind \in {"FORALL", "EXISTS"} =>
                   has_var(term_db) /\ has_quant_body(term_db)
        IN  IF last'.name = "UNDEFINED"
              THEN \A o \in OpKinds : ~served(o)
              ELSE served(CHOOSE o \in OpKinds : o.kind = last'.name)]_vars

\* a two-argument operator has been returned with one term of its kind
C15_Witness ==
  /\ last.op = "pick_op_kind"
  /\ last.ok
  /\ last.name = "BV_SUB"
  /\ Cardinality({x \in term_db : x.kind = "SORT_BV"}) = 1

\* C16: with simple symbols pick_symbol returns "_x" followed by a counter
\* that is 0 at the start and after a reset, goes up by exactly one with
\* each pick_symbol call and is touched by nothing else, so no symbol is
\* returned twice between two resets.
C16_SymbolsCountUp ==
  /\ n_symbols = 0
  /\ [][/\ last'.op = "pick_symbol" =>
             /\ last'.name = "_x"
             /\ last'.num = n_symbols
             /\ n_symbols' = n_symbols + 1
        /\ last'.op = "reset" => n_symbols' = 0
        /\ last'.op \notin {"pick_symbol", "reset"} =>
             n_symbols' = n_symbols]_vars

\* the second symbol since the start or the last reset
C16_Witness == last.op = "pick_symbol" /\ last.num = 1 /\ n_symbols = 2

\* parse_options has returned or ended the process: the header is written
\* by every parse that returns, so a process killed with none was killed
\* before
OptionsParsed ==
  /\ pc \notin {"start", "none"}
  /\ ~(pc = "killed" /\ cmd_line_trace = <<>>)

\* C17 as stated: once the options are parsed, cmd_line_trace is
\* set-murxla-options followed by the arguments in their order, without
\* -u, -s and -a and the token behind each, and without -d; parse_options
\* does not end in between. Violated: a -u that the first line of the trace
\* brings in fails the assert of line 764, and stays in the header where
\* asserts are compiled out.
C17_HeaderOmitsUntraceSeedApiTraceDd ==
  LET RECURSIVE kept(_, _)
      kept(a, i) ==
        IF i > Len(a) THEN <<>>
        ELSE IF a[i] \in {"-u", "-s", "-a"} THEN kept(a, i + 2)
        ELSE IF a[i] = "-d" THEN kept(a, i + 1)
        ELSE <<a[i]>> \o kept(a, i + 1)
  IN  /\ pc # "aborted"
      /\ OptionsParsed /\ pc \in {"parsed", "setup", "test", "run", "dd",
                                  "finish", "done", "killed"}
           => cmd_line_trace = <<"set-murxla-options">> \o kept(args, 1)

\* C18 as stated: when a file with a set-murxla-options line is untraced
\* and both that line and the command line are accepted on their own, the
\* arguments are the flags of the line followed by those of the command
\* line, parsing them succeeds, and -t, the binary of --smt2, -a and -s have
\* the value the command line alone gives them wherever the command line
\* has the option; without such a line the arguments are those of the
\* command line. Violated: --smt2 with a binary in both ends in "multiple
\* solvers defined".
C18_CommandLineValueWins ==
  LET alone == parse_options(argv, NoTraceLine, TRUE)
      line  == parse_args(trace_line.opts, 1,
                          [exit |-> "", seen |-> {}, o |-> DefaultOptions])
      given(opt) == opt \in alone.seen
  IN  OptionsParsed /\ "-u" \in alone.seen /\ alone.exit = ""
      => IF trace_line.has_header
           THEN line.exit = "" /\ "-u" \notin line.seen
                => /\ args = trace_line.opts \o alone.args
                   /\ pc # "exit_error"
                   /\ given("-t") => options.time = alone.o.time
                   /\ given("--smt2") /\ alone.o.solver_binary # ""
                        => options.solver_binary = alone.o.solver_binary
                   /\ given("-a") => options.api_trace_file_name =
                                       alone.o.api_trace_file_name
                   /\ given("-s") => options.seed = alone.o.seed
           ELSE args = alone.args

\* C19: main enters the continuous loop exactly when neither -s nor -u was
\* given and a single run otherwise, the worker is forked exactly when -d
\* was given or the loop is entered, and with -s main makes one run, with
\* the seed given.
C19_ModesFollowSeedAndUntrace ==
  /\ [][pc = "setup" /\ pc' \in {"test", "run"}
        => /\ pc' = "test" <=> ("-s" \notin seen /\ "-u" \notin seen)
           /\ is_forked' <=> ("-d" \in seen \/ pc' = "test")]_vars
  /\ []("-s" \in seen /\ pc \in {"dd", "finish", "done"}
        => options.is_seeded /\ runs = <<options.seed>>)
  /\ [](pc = "run" => runs = <<>>)

\* a run with seed 2, not forked, has come to its end
C19_Witness ==
  /\ pc = "done"
  /\ "-s" \in seen
  /\ "-d" \notin seen
  /\ runs = <<u32(2)>>
  /\ ~is_forked

\* C20 as stated: a SIGINT ends the process through the handler, which
\* prints the error summary, removes the temp directory and raises the
\* signal again with the previous handler restored, whatever the mode.
\* Violated: the handler is installed in continuous mode only.
C20_SigintRunsHandler ==
  (pc = "killed" \/ (events # <<>> /\ events[1] = "error_summary"))
  => /\ Len(events) >= 4
     /\ SubSeq(events, 1, 4) = <<"error_summary", "remove_tmp_dir",
                                 "restore_handler", "raise">>
     /\ ~tmp_dir

\* C21 as stated: when the process has ended with exit code 0 (the return
\* of main, or the exit after --print-fsm) or through the SIGINT handler,
\* the temp directory does not exist. Violated: exit(0) after print_fsm
\* (line 818) comes after create_tmp_directory (line 796) and removes
\* nothing.
C21_TmpDirGoneAtExit ==
  (pc \in {"done", "printed"}
   \/ (events # <<>> /\ events[1] = "error_summary"))
  => ~tmp_dir

\* C22 as stated: the process ends with exit code 0 only when no run found
\* an error. Violated: the result of the forked run is dropped and main
\* returns 0 after the delta debugger, and after the continuous loop.
C22_ExitZeroOnlyWithoutError ==
  pc \in {"done", "printed"}
  => \A i \in DOMAIN results : results[i].found = "ok"

\* C23 as stated: a command line (or set-murxla-options line) that
\* parse_options rejects, and a MurxlaConfigException, end the process with
\* "ERROR:" on stderr and the configuration exit code, with no run made.
\* Violated: parse_options leaves through MURXLA_EXIT_ERROR, the exit code
\* of the engine errors.
C23_ConfigErrorsExitWithConfigCode ==
  LET bad_cli == parse_options(argv, trace_line, ndebug).exit = "error"
  IN  /\ OptionsParsed /\ bad_cli
        => /\ pc = "exit_error_config"
           /\ events = <<"cerr", "murxla: ERROR: ">>
           /\ runs = <<>>
      /\ pc = "exit_error_config" /\ runs = <<>>
        => events = <<"cerr", "murxla: ERROR: ">>

\* C26: in seeded or untrace mode with -d, the single run is followed by
\* the delta debugger whatever the run found; the run traces into a file
\* (tmp.trace in the temp directory when -a names none) and never to
\* stdout; and the minimised trace is named by DD::TRACE_PREFIX put before
\* the untraced file name, or by DD::TRACE_PREFIX, the seed and ".trace".
C26_DdAfterRunIntoTmpTrace ==
  /\ [][pc = "run" /\ pc' # "killed" /\ options.dd
        => LET r == results'[Len(results')]
           IN  /\ pc' = "dd"
               /\ r.api_trace_file_name =
                    (IF "-a" \in seen THEN options.api_trace_file_name
                                      ELSE "TMP_DIR/tmp.trace")
               /\ r.trace_mode = "TO_FILE"
               /\ r.dd_trace_file_name =
                    (IF "-u" \in seen
                       THEN <<"DD::TRACE_PREFIX", options.untrace_file_name>>
                       ELSE <<"DD::TRACE_PREFIX", seed_str(options.seed),
                              ".trace">>)]_vars
  /\ [][pc = "dd" /\ pc' # "killed"
        => pc' = "finish" /\ events' = <<"DD::run">>]_vars
  /\ [](events = <<"DD::run">> => options.dd /\ Len(results) = 1)

\* the delta debugger has run after a run with seed 2 that found nothing
\* and traced into tmp.trace
C26_Witness ==
  /\ pc = "finish"
  /\ events = <<"DD::run">>
  /\ results[1].found = "ok"
  /\ results[1].api_trace_file_name = "TMP_DIR/tmp.trace"
  /\ results[1].dd_trace_file_name = <<"DD::TRACE_PREFIX", "2", ".trace">>

\* C24: the replay of a line that names a sort or term id which nothing
\* has bound gets null from the lookup and ends in the untrace error, which
\* names this line: no solver call is made for the line, nothing is bound
\* and the SolverManager is left as it was; a line that is replayed got the
\* object its own id is bound to, never that of another id, and has its
\* solver call made; and after the error no further line is read.
C24_UnboundIdRaisesUntraceError ==
  /\ [](replay.error # 0
        => replay.error = replay.line /\ replay.error \notin replay.calls)
  /\ [][last'.op \in {"untrace", "UntraceError"}
        => LET table == IF last'.ok THEN untraced_sorts ELSE untraced_terms
               obj == IF last'.ok THEN last'.sort ELSE last'.term
               n == replay.line + 1
           IN  /\ replay.error = 0
               /\ replay'.line = n
               /\ ~is_bound(table, last'.num)
                    => /\ last'.op = "UntraceError"
                       /\ last'.sort = NoSort /\ last'.term = NoTerm
               /\ last'.op = "UntraceError"
                    => /\ replay'.error = n
                       /\ replay'.calls = replay.calls
                       /\ UNCHANGED <<sortVars, termVars, untraceVars,
                                      assumptions, satVars, n_push_levels>>
               /\ last'.op = "untrace"
                    => /\ <<last'.num, obj>> \in table
                       /\ replay'.error = 0
                       /\ replay'.calls = replay.calls \cup {n}]_vars

\* line 2 of a trace names term id 2 while only id 1 is bound to a term, by
\* line 1, for which the solver call was made
C24_Witness ==
  /\ last.op = "UntraceError"
  /\ ~last.ok
  /\ last.num = 2
  /\ ~is_bound(untraced_terms, 2)
  /\ is_bound(untraced_terms, 1)
  /\ bound_to(untraced_terms, 1) # NoTerm
  /\ replay = [line |-> 2, calls |-> {1}, error |-> 2]

\* C25: for a trace the oracle finds interesting, the delta debugger comes
\* to an end, the trace it ends with has no more lines than the one it
\* started with and is interesting, and every variant it accepted on the
\* way, in any pass, is one the oracle found interesting.
C25_DdEndsSmallerAndInteresting ==
  /\ <>(dd.phase = "done")
  /\ [](dd.phase = "done"
        => /\ Cardinality(dd.lines) <= dd.n
           /\ <<file(dd.lines, dd.deps), TRUE>> \in dd.memo
           /\ <<file(dd.lines, dd.deps), FALSE>> \notin dd.memo)
  /\ [](\A c \in dd.accepted :
          <<c, TRUE>> \in dd.memo /\ <<c, FALSE>> \notin dd.memo)
  /\ [](<<file(dd.lines, dd.deps), TRUE>> \in dd.memo)

\* a trace of three lines is down to two, which have new ids and of which
\* one is shorter than it was, with a variant refused on the way
C25_Witness ==
  /\ dd.phase = "done"
  /\ dd.n = 3
  /\ dd.lines = {<<1, 0>>, <<2, 1>>}
  /\ dd.compacted
  /\ <<{<<1, 1>>, <<2, 1>>}, {}>> \in dd.accepted
  /\ \E e \in dd.memo : ~e[2]

\* C30 as stated: the enabled theories are those the solver supports
\* among the theories asked for and THEORY_BOOL, or among all theories
\* when none is asked for: none the solver does not support, THEORY_BOOL
\* whenever the solver supports it; and the sort kinds registered are those
\* of the enabled theories, SORT_RM and SORT_FP for THEORY_FP and none for
\* THEORY_QUANT. Violated: disable_theory takes a theory (THEORY_BOOL too)
\* out of the enabled set and leaves its sort kinds registered, so that
\* THEORY_BOOL is not enabled although the solver supports it and SORT_BOOL
\* is registered for a theory that is not enabled.
C30_EnabledTheoriesAndSortKinds ==
  LET requested == Range(theories.enabled_theories)
      supported == Range(theories.solver_theories)
      wanted == IF requested = {} THEN Range(AllTheories)
                ELSE requested \cup {"THEORY_BOOL"}
      kinds == {d.kind : d \in theories.sort_kinds}
      kinds_of(t) == {d.kind : d \in {e \in theories.sort_kinds : e.theory = t}}
  IN  /\ theories.phase \in {"built", "aborted"}
        => /\ theories.enabled = supported \cap wanted
           /\ theories.enabled \subseteq supported
           /\ "THEORY_BOOL" \in supported => "THEORY_BOOL" \in theories.enabled
      /\ theories.phase = "built"
        => /\ \A d \in theories.sort_kinds : d.theory \in theories.enabled
           /\ \A t \in theories.enabled : t # "THEORY_QUANT" => kinds_of(t) # {}
           /\ "THEORY_FP" \in theories.enabled
                => kinds_of("THEORY_FP") = {"SORT_RM", "SORT_FP"}
           /\ kinds_of("THEORY_QUANT") = {}
      /\ theories.phase # "built" => theories.sort_kinds = {}

\* C27: when add_sort(s, k) has returned, the bucket of kind k holds the
\* stored sort for s, has_sort(k) is true and pick_sort(k, false) can
\* return that sort, be it the first sort of the kind or a later one.
C27_AddedSortIsInItsBucket ==
  last.op = "add_sort"
  => /\ last.sort \in sort_kind_to_sorts[last.name]
     /\ last.sort \in sorts
     /\ has_sort(last.name)
     /\ last.sort \in pick_sort_candidates(last.name)

\* the sort just added is the first of its kind and the second of the
\* database
C27_Witness ==
  /\ last.op = "add_sort"
  /\ sort_kind_to_sorts[last.name] = {last.sort}
  /\ Cardinality(sorts) = 2
  /\ last.sort.id = 2

\* C28: add_sort of a sort equal to a stored one leaves n_sorts and the
\* sort set as they are and hands back the stored sort, with the id and
\* kind it has; and the same add_sort once more (the same back-end sort,
\* fresh from the solver or as handed back, with the same kind) would
\* change neither the sort set, nor n_sorts, nor any bucket, and hand back
\* the same sort.
C28_AddSortInterns ==
  /\ [][last'.op = "add_sort" /\ (\E s \in sorts : s.be = last'.sort.be)
        => /\ n_sorts' = n_sorts
           /\ sorts' = sorts
           /\ last'.sort \in sorts]_vars
  /\ [](last.op = "add_sort"
        => \A h0 \in {FreshSort(last.sort.be), last.sort} :
             LET h == set_kind_if_any(h0, last.name)
             IN  /\ canonical_sort(sorts, h, n_sorts) = last.sort
                 /\ next_n_sorts(sorts, h, n_sorts) = n_sorts
                 /\ sorts \cup {canonical_sort(sorts, h, n_sorts)} = sorts
                 /\ bucket_insert(sort_kind_to_sorts[last.name], last.sort)
                      = sort_kind_to_sorts[last.name])

\* a sort stored with one kind was added again with another kind, and came
\* back with the id and kind it was stored with
C28_Witness ==
  /\ last.op = "add_sort"
  /\ last.sort.kind # last.name
  /\ last.sort.id = 1
  /\ n_sorts = 2
  /\ Cardinality(sorts) = 2

\* C29: pick_op_kind(with_terms = true) returns UNDEFINED exactly when no
\* operator of the table is usable (a term for the sort kind of each of
\* its argument positions, of position 0 for an n-ary operator, and for a
\* quantifier a variable and a body), and otherwise returns an operator
\* that has a term for the sort kind of each of these positions.
C29_UndefinedIffNoOperatorUsable ==
  last.op = "pick_op_kind" /\ last.ok
  => LET term_of(K) == \E x \in term_db : K = SORT_ANY \/ x.kind = K
         positions(op) == IF op.arity < 0 THEN {0} ELSE 0..(op.arity - 1)
         with_args(op) ==
           \A i \in positions(op) : term_of(get_arg_sort_kind(op, i))
         usable(op) ==
           /\ with_args(op)
           /\ op.kind \in {"FORALL", "EXISTS"}
                => has_var(term_db) /\ has_quant_body(term_db)
     IN  /\ last.name = "UNDEFINED" <=> \A op \in OpKinds : ~usable(op)
         /\ last.name # "UNDEFINED"
              => \E op \in OpKinds : op.kind = last.name /\ with_args(op)

\* the n-ary BV_ADD has been returned with a single bit-vector term there
C29_Witness ==
  /\ last.op = "pick_op_kind"
  /\ last.ok
  /\ last.name = "BV_ADD"
  /\ Cardinality({x \in term_db : x.kind = "SORT_BV"}) = 1
  /\ Cardinality(term_db) = 2

\* C31 as stated: pick_assumption returns a Bool term of scope level 0 that
\* the term database holds and adds it to the assumption set, so that
\* is_assumed of it and has_assumed hold when it returns; nothing else adds
\* to the assumption set; and pick_assumed_assumption returns a term of the
\* assumption set, that is, one pick_assumption returned since the set was
\* last emptied. Violated: the assert of line 439 is has_term(SORT_BOOL),
\* at any level, and line 440 asks for a term of level 0; with Bool terms
\* inside push levels only there is no term to return.
C31_AssumptionsAreLevelZeroBools ==
  /\ [][last'.op = "pick_assumption"
        => /\ last'.ok
           /\ last'.term \in term_db
           /\ last'.term.kind = "SORT_BOOL"
           /\ 0 \in last'.term.levels
           /\ last'.term \in assumptions'
           /\ assumptions' # {}]_vars
  /\ [][assumptions' \subseteq
          {below(t, n_push_levels') : t \in assumptions}
            \cup (IF last'.op = "pick_assumption"
                    THEN {last'.term} ELSE {})]_vars
  /\ [][last'.op = "pick_assumed_assumption"
        => last'.term \in assumptions /\ UNCHANGED assumptions]_vars

\* C32 as stated: a binding of the untrace id tables goes away only by
\* reset. Violated: clear(), called on its own, empties both tables.
C32_BindingsRemovedOnlyByReset ==
  [][\/ /\ untraced_terms \subseteq untraced_terms'
        /\ untraced_sorts \subseteq untraced_sorts'
     \/ last'.op = "reset"]_vars

\* C32: the untrace id tables are write-once. register_term and
\* register_sort bind an untraced id only when it is not bound yet, a
\* second registration of an id leaves the binding as it is,
\* register_sort returns false and changes nothing when no sort has the
\* given sort id, and a binding goes away only by clear, called on its own
\* or by reset.
C32_UntraceTablesWriteOnce ==
  /\ [][last'.op = "register_term"
        => untraced_terms' =
             IF is_bound(untraced_terms, last'.num)
               THEN untraced_terms
               ELSE untraced_terms \cup {<<last'.num, last'.term>>}]_vars
  /\ [][last'.op = "register_sort"
        => /\ sorts = {} => ~last'.ok
           /\ last'.ok => last'.sort \in sorts
           /\ untraced_sorts' =
                IF is_bound(untraced_sorts, last'.num) \/ ~last'.ok
                  THEN untraced_sorts
                  ELSE untraced_sorts \cup {<<last'.num, last'.sort>>}]_vars
  /\ [][\/ /\ untraced_terms \subseteq untraced_terms'
           /\ untraced_sorts \subseteq untraced_sorts'
        \/ /\ last'.op \in {"reset", "clear"}
           /\ untraced_terms' = {}
           /\ untraced_sorts' = {}]_vars

\* an id is registered again, with another term (of the same sort) than
\* the one it is bound to
C32_Witness ==
  /\ last.op = "register_term"
  /\ last.term # NoTerm
  /\ is_bound(untraced_terms, last.num)
  /\ bound_to(untraced_terms, last.num) # last.term
  /\ sort_equals(bound_to(untraced_terms, last.num).sort, last.term.sort)
  /\ untraced_sorts # {}

\* C33: add_term appends the term to pending_get_sorts exactly when the
\* sort the solver reports for it was not in the sort database before the
\* call; either way, when add_term returns the term's sort is stored, has
\* a nonzero id and a kind other than SORT_ANY.
C33_PendingIffSortUnseen ==
  [][last'.op = "add_term"
     => /\ pending_get_sorts' =
             IF \E s \in sorts : s.be = last'.sort.be
               THEN pending_get_sorts
               ELSE Append(pending_get_sorts, last'.term)
        /\ last'.sort \in sorts'
        /\ last'.sort.id # 0
        /\ last'.sort.kind # SORT_ANY
        /\ last'.term \in term_db']_vars

\* a term of a sort seen before is added after a term of an unseen sort
C33_Witness ==
  /\ last.op = "add_term"
  /\ ~last.ok
  /\ Len(pending_get_sorts) = 1
  /\ last.term # pending_get_sorts[1]

\* C34: command-line parsing never reads an argument past the end: an
\* option that takes or may take a following argument and is the last
\* token is handled as having no argument or ends with the missing
\* argument error.
C34_NeverReadsPastEnd ==
  /\ last.name \notin {"args[size]", "args.back()"}
  /\ pc \in {"start", "parsed", "aborted", "exit_error"}

\* C38: -s accepts both notations: an argument of decimal digits is read
\* as a decimal number and a hexadecimal string as a hexadecimal number,
\* an argument containing '-' is rejected with an error, and in every
\* accepted case is_seeded is set and the seed fits the 32-bit field.
C38_SeedReadInBothNotations ==
  pc # "start"
  => /\ find_dash(seed_arg) <=> pc = "exit_error"
     /\ pc = "parsed"
          => /\ options.is_seeded
             /\ options.seed.hi \in 0..(TwoTo16 - 1)
             /\ options.seed.lo \in 0..(TwoTo16 - 1)
             /\ (seed_arg # <<>>
                 /\ \A i \in DOMAIN seed_arg : is_digit(seed_arg[i], 10))
                  => options.seed = read_decimal(seed_arg)
             /\ (all_xdigit(seed_arg)
                 /\ \E i \in DOMAIN seed_arg : ~is_digit(seed_arg[i], 10))
                  => options.seed = extract(seed_arg, 16)

\* C35: with a non-empty configured option set, pick_option always has a
\* candidate left after the conflict and the dependency filter, so it
\* never selects from an empty list, whatever pick_option calls came
\* before.
C35_PickOptionHasCandidate ==
  (last.op = "pick_option" /\ solver_options.names # {})
    => last.ok /\ alive /\ last.name \in solver_options.names

\* C36: used_options is conflict-free in every reachable state: it never
\* holds two options a and b with b among the conflicts of a, whatever the
\* order of the picks and also when the conflicts are declared on one side
\* only.
C36_UsedOptionsConflictFree ==
  \A a \in used_options, b \in used_options :
    b \notin solver_options.conflicts[a]

\* C37 as stated: whenever has_theory(with_terms = true) holds,
\* pick_theory(with_terms = true) picks from a non-empty candidate set and
\* returns an enabled theory that owns a sort kind other than SORT_RM for
\* which a term exists; terms of SORT_RM alone never make THEORY_FP a
\* candidate. Violated: has_theory does not look at d_enabled_theories, so
\* with a term of a theory that was disabled pick_theory fails the assert
\* of line 369, and returns the disabled theory where asserts are compiled
\* out.
C37_PickTheoryWithTerms ==
  /\ [][(last'.op = "pick_theory" /\ last'.num = 1)
        => /\ last'.ok
           /\ last'.name \in theories.enabled
           /\ \E d \in theories.sort_kinds :
                /\ d.theory = last'.name
                /\ d.kind # "SORT_RM"
                /\ has_term(term_db, d.kind)]_vars
  /\ []((has_term(term_db, "SORT_RM") /\ ~has_term(term_db, "SORT_FP"))
          => "THEORY_FP" \notin theory_candidates(term_db, theories, TRUE))

\* C39: every sort stored in a bucket of the kind -> sorts map is also an
\* element of the sort set, as the same canonical object, and has a
\* nonzero id; the buckets and the sort set are emptied together by reset.
C39_BucketsHoldStoredSorts ==
  /\ [](\A k \in DOMAIN sort_kind_to_sorts :
          \A s \in sort_kind_to_sorts[k] :
            /\ s \in sorts
            /\ find_sort_in(sorts, s) = s
            /\ s.id # 0)
  /\ [](sorts = {} <=> sort_kind_to_sorts = EmptyBuckets)
  /\ [][last'.op \in {"reset", "clear"}
        => sorts' = {} /\ sort_kind_to_sorts' = EmptyBuckets]_vars

\* one stored sort is in two buckets, next to another stored sort
C39_Witness ==
  /\ Cardinality(sorts) = 2
  /\ \E s \in sorts :
       /\ s \in sort_kind_to_sorts["SORT_BOOL"]
       /\ s \in sort_kind_to_sorts["SORT_BV"]
  /\ last.op = "add_sort"

====
